---- MODULE Spec2Model ----
(***************************************************************************)
(* Model of the dovewing tiered user cache (src/dovewing/core.go):         *)
(* GetUser / cachedReturn / the background refresh goroutine / ClearUser,   *)
(* the Discord adapter's ValidateId, and the stores they talk to            *)
(* (the persistent table internal_user_cache__<platform> and the redis      *)
(* key uobj__<platform>:<id>).                                              *)
(***************************************************************************)
EXTENDS Integers, Sequences, FiniteSets, TLC

VARIABLES
    initialized,   \* DiscordState.initialized
    now,           \* wall clock (NOW() of the database, time.Now of the process)
    pg,            \* the persistent table: id -> row | NoRow
    redis,         \* the fast cache: id -> entry | NoEntry (key uobj__<platform>:<id>)
    actors,        \* the running GetUser / ClearUser calls and background goroutines
    started,       \* number of calls started so far
    subject,       \* the identity the callers of this run ask about
    concurrent,    \* whether two calls may run at the same time
    faults,        \* number of failures of the environment so far
    hist,          \* summary of the call that completed last
    mwBlank,       \* configuration: the last middleware registered blanks display names
    rl,            \* the hot cache key <Bucket>-<identifier> of the ratelimit
    limits,        \* the running Ratelimit.Limit calls
    http           \* the request a registered uapi Route is serving

vars == <<initialized, now, pg, redis, actors, started, subject, concurrent, mwBlank, rl, limits,
          http, faults, hist>>

----------------------------------------------------------------------------
(* Bounds *)

MaxTime == 2
MaxCalls == 3
MaxFaults == 1
MaxConcCalls == 2

(* BaseState.UserExpiryTime, a configuration value (in clock ticks) *)
UserExpiryTime == 1

Calls == {"c1", "c2"}
Tasks == {"t1", "t2"}
Actors == Calls \cup Tasks

----------------------------------------------------------------------------
(* Identities: a string is the sequence of its characters; a decimal digit *)
(* is the number 0..9, any other character is a number above 9.            *)

IdValid == <<1, 2, 3, 4, 5, 6, 7, 8, 9, 0, 1, 2, 3, 4, 5, 6, 7, 8>>
IdShort == <<1, 2>>
Ids == {IdValid, IdShort}

MaxUint64Digits == <<1, 8, 4, 4, 6, 7, 4, 4, 0, 7, 3, 7, 0, 9, 5, 5, 1, 6, 1, 5>>

RECURSIVE LexLeq(_, _)
LexLeq(s, t) ==
    IF s = <<>> THEN TRUE
    ELSE IF Head(s) < Head(t) THEN TRUE
    ELSE IF Head(s) > Head(t) THEN FALSE
    ELSE LexLeq(Tail(s), Tail(t))

RECURSIVE StripZeros(_)
StripZeros(s) ==
    IF Len(s) > 1 /\ Head(s) = 0 THEN StripZeros(Tail(s)) ELSE s

(* strconv.ParseUint(id, 10, 64) returns no error *)
ParseUintOk(s) ==
    /\ Len(s) > 0
    /\ \A i \in 1..Len(s) : s[i] \in 0..9
    /\ LET d == StripZeros(s)
       IN  \/ Len(d) < Len(MaxUint64Digits)
           \/ Len(d) = Len(MaxUint64Digits) /\ LexLeq(d, MaxUint64Digits)

(* DiscordState.ValidateId returns no error *)
ValidateId(id) ==
    /\ ParseUintOk(id)
    /\ ~(Len(id) <= 16 \/ Len(id) > 20)

----------------------------------------------------------------------------
(* dovetypes.PlatformUser.  Flags is a sequence (the nil slice is <<>>),    *)
(* ExtraData a set of <<key, value>> pairs (the nil map is {}).             *)

NoUser == [nil |-> TRUE]

PlatformStatusOnline == "online"
PlatformStatusOffline == "offline"

AvatarURL == "http://x/a.png"

(* what the platform knows about a user; it may change between two fetches *)
RemoteProfiles ==
    { [Username |-> "ada", DisplayName |-> ""],
      [Username |-> "ada2", DisplayName |-> "Ada"] }

(* DiscordState.GetUser on success *)
RemoteUser(id, p) ==
    [ID |-> id, Username |-> p.Username, DisplayName |-> p.DisplayName,
     Avatar |-> AvatarURL, Bot |-> FALSE, Status |-> PlatformStatusOffline,
     Flags |-> <<>>, ExtraData |-> {}]

(* DiscordState.PlatformSpecificCache when the member is in the session state *)
LiveUser(id) ==
    [ID |-> id, Username |-> "ada", DisplayName |-> "",
     Avatar |-> AvatarURL, Bot |-> FALSE, Status |-> PlatformStatusOnline,
     Flags |-> <<>>,
     ExtraData |-> {<<"nickname", "nick">>, <<"mutual_guild", "g1">>,
                    <<"preferred_guild", "true">>, <<"public_flags", "0">>}]

(* the PlatformUser GetUser builds from a row of the table *)
RowUser(id, row) ==
    [ID |-> id, Username |-> row.username, DisplayName |-> row.display_name,
     Avatar |-> row.avatar, Bot |-> row.bot, Status |-> PlatformStatusOffline,
     Flags |-> <<>>, ExtraData |-> {<<"cache", "pg">>}]

(* the PlatformUser the background goroutine builds from the fetched user *)
RefreshUser(id, user) ==
    [ID |-> id, Username |-> user.Username, DisplayName |-> user.DisplayName,
     Avatar |-> user.Avatar, Bot |-> user.Bot, Status |-> user.Status,
     Flags |-> <<>>, ExtraData |-> {}]

(* the JSON value null *)
JsonNull == [null |-> TRUE]

(* json.Marshal that leaves the flags out *)
MarshalDropsFlags(u) ==
    [id |-> u.ID, username |-> u.Username, display_name |-> u.DisplayName,
     avatar |-> u.Avatar, bot |-> u.Bot, status |-> u.Status,
     flags |-> JsonNull,
     extra_data |-> IF u.ExtraData = {} THEN JsonNull ELSE [obj |-> u.ExtraData]]

Marshal(u) ==
    [id |-> u.ID, username |-> u.Username, display_name |-> u.DisplayName,
     avatar |-> u.Avatar, bot |-> u.Bot, status |-> u.Status,
     flags |-> IF u.Flags = <<>> THEN JsonNull ELSE [arr |-> u.Flags],
     extra_data |-> IF u.ExtraData = {} THEN JsonNull ELSE [obj |-> u.ExtraData]]

(* json.Unmarshal(bytes, &user) into a zero PlatformUser *)
Unmarshal(b) ==
    [ID |-> b.id, Username |-> b.username, DisplayName |-> b.display_name,
     Avatar |-> b.avatar, Bot |-> b.bot, Status |-> b.status,
     Flags |-> IF b.flags = JsonNull THEN <<>> ELSE b.flags.arr,
     ExtraData |-> IF b.extra_data = JsonNull THEN {} ELSE b.extra_data.obj]

(* bytes that are not a JSON document (a value cut short, or written by     *)
(* something else)                                                          *)
Garbage == [truncated |-> TRUE]

(* json.Unmarshal returns an error: the bytes are not the JSON object of a  *)
(* PlatformUser                                                             *)
UnmarshalErr(b) == "id" \notin DOMAIN b

----------------------------------------------------------------------------
(* The stores *)

NoRow == [absent |-> TRUE]
NoEntry == [absent |-> TRUE]

(* a row left in the table by an earlier run of the process *)
OldRow ==
    [username |-> "ada", display_name |-> "ada", avatar |-> AvatarURL,
     bot |-> FALSE, last_updated |-> 0]

(* INSERT ... ON CONFLICT (id) DO UPDATE SET ..., last_updated = NOW().     *)
(* The column created_at is written once and never used: it is left out.    *)
Upsert(row, u, t) ==
    IF row = NoRow
    THEN [username |-> u.Username, display_name |-> u.DisplayName,
          avatar |-> u.Avatar, bot |-> u.Bot, last_updated |-> t]
    ELSE [row EXCEPT !.username = u.Username, !.display_name = u.DisplayName,
                     !.avatar = u.Avatar, !.bot = u.Bot, !.last_updated = t]

(* SELECT COUNT FROM table WHERE id = $1 (0 or 1: id is the primary key) *)
RowCount(row) == IF row = NoRow THEN 0 ELSE 1

(* the test with >= in place of > *)
IsStaleAtWindow(lastUpdated, t) == t - lastUpdated >= UserExpiryTime

(* time.Since(lastUpdated) > state.UserExpiryTime *)
IsStale(lastUpdated, t) == t - lastUpdated > UserExpiryTime

(* a SET whose TTL is twice the configured one *)
RedisEntryDoubleTtl(bytes, t, ttl) == [bytes |-> bytes, expires |-> t + 2 * ttl]

(* redis SET key bytes EX ttl *)
RedisEntry(bytes, t, ttl) == [bytes |-> bytes, expires |-> t + ttl]

(* redis GET finds the key: it was set and its TTL has not run out *)
RedisLive(e, t) == e # NoEntry /\ t < e.expires

(* state.Middlewares, in registration order; a middleware that succeeds     *)
(* tags the user it was given                                               *)
Middlewares == <<"mw1", "mw2">>
MwOutcomes == {"ok", "blank", "err"}
ApplyMiddleware(m, u) == [u EXCEPT !.Flags = Append(@, m)]

(* what a middleware that returns no error returns: the user it was given,  *)
(* tagged; a middleware is free to change any field, and one that blanks    *)
(* the display name does so                                                 *)
MiddlewareResult(m, u, out) ==
    IF out = "blank" THEN [ApplyMiddleware(m, u) EXCEPT !.DisplayName = ""]
    ELSE ApplyMiddleware(m, u)

(* the loop without its return on error *)
RECURSIVE RunMiddlewaresGoOn(_, _, _, _)
RunMiddlewaresGoOn(u, i, outs, ev) ==
    IF i > Len(Middlewares) THEN [u |-> u, err |-> "", ev |-> ev]
    ELSE IF outs[i] = "err"
         THEN RunMiddlewaresGoOn(u, i + 1, outs, Append(ev, <<Middlewares[i], "err">>))
         ELSE RunMiddlewaresGoOn(ApplyMiddleware(Middlewares[i], u), i + 1, outs,
                                 Append(ev, <<Middlewares[i], "ok">>))

(* the loop over the middlewares in the reverse of the registration order *)
RECURSIVE RunMiddlewaresReversed(_, _, _, _)
RunMiddlewaresReversed(u, i, outs, ev) ==
    LET j == Len(Middlewares) + 1 - i
    IN  IF i > Len(Middlewares) THEN [u |-> u, err |-> "", ev |-> ev]
        ELSE IF outs[j] = "err"
             THEN [u |-> NoUser, err |-> "middleware failed",
                   ev |-> Append(ev, <<Middlewares[j], "err">>)]
             ELSE RunMiddlewaresReversed(ApplyMiddleware(Middlewares[j], u), i + 1, outs,
                                         Append(ev, <<Middlewares[j], "ok">>))

(* the for loop of cachedReturn: runs the middlewares from i on, outs[i]    *)
(* being the outcome of middleware i; returns the user, the error and the   *)
(* events of the middlewares invoked                                        *)
RECURSIVE RunMiddlewares(_, _, _, _)
RunMiddlewares(u, i, outs, ev) ==
    IF i > Len(Middlewares) THEN [u |-> u, err |-> "", ev |-> ev]
    ELSE IF outs[i] = "err"
         THEN [u |-> NoUser, err |-> "middleware failed",
               ev |-> Append(ev, <<Middlewares[i], "err">>)]
         ELSE RunMiddlewares(MiddlewareResult(Middlewares[i], u, outs[i]), i + 1, outs,
                             Append(ev, <<Middlewares[i], "ok">>))

(* if u.DisplayName == "" { u.DisplayName = u.Username } *)
DefaultDisplayName(u) ==
    IF u.DisplayName = "" THEN [u EXCEPT !.DisplayName = u.Username] ELSE u

(* ClearUserReq.ClearFrom *)
ClearFromInternalUserCache == "iuc"
ClearFromRedis == "redis"
ClearReqs == {<<>>, <<ClearFromInternalUserCache>>, <<ClearFromRedis>>,
              <<ClearFromInternalUserCache, ClearFromRedis>>}

Contains(s, x) == \E i \in 1..Len(s) : s[i] = x
SelectsIuc(req) == Len(req) = 0 \/ Contains(req, ClearFromInternalUserCache)
(* a selection in which the empty list selects nothing *)
SelectsRedisOnlyNamed(req) == Contains(req, ClearFromRedis)
SelectsRedis(req) == Len(req) = 0 \/ Contains(req, ClearFromRedis)

----------------------------------------------------------------------------
(* The ratelimit (src/dovewing/state.go) and the hot cache it counts in     *)
(* (src/hotcache/redis/redis.go): one Ratelimit value, one identifier.      *)

(* Ratelimit.Expiry (in clock ticks), Ratelimit.MaxRequests, Ratelimit.Bucket *)
Expiry == 2
MaxRequests == 1
Bucket == "bucket"

(* fmt.Sprintf("%x", sha256.Sum256([]byte(rl.Identifier(r)))) for the one   *)
(* remote address of the model                                              *)
Identifier == "sha256(addr)"

Limiters == {"r1", "r2"}

(* the key is not in redis *)
NoCounter == [absent |-> TRUE]

(* redis keeps a key until its TTL runs out; ttl = -1: the key has no TTL.  *)
(* passed and answered count, for the properties, the Limit calls that      *)
(* returned a result since the key was created and those among them that    *)
(* reported Exceeded = false.                                               *)
CounterLive(e, t) == e # NoCounter /\ (e.expires = -1 \/ t < e.expires)

(* RedisHotCache.Exists: EXISTS key > 0 *)
Exists(e, t) == CounterLive(e, t)

(* RedisHotCache.Set(key, value, expiry): SET key value EX expiry *)
Set(value, t, expiry) ==
    [val |-> value, expires |-> t + expiry, passed |-> 0, answered |-> 0]

(* RedisHotCache.Get: the value, or ErrHotCacheDataNotFound (redis.Nil) *)
Get(e, t) == IF CounterLive(e, t) THEN [found |-> TRUE, val |-> e.val]
             ELSE [found |-> FALSE, val |-> 0]

(* RedisHotCache.IncrementOne: INCR key; a key that is not there is         *)
(* created with the value 1 and without TTL                                 *)
IncrementOne(e, t) ==
    IF CounterLive(e, t) THEN [e EXCEPT !.val = @ + 1]
    ELSE [val |-> 1, expires |-> -1, passed |-> 0, answered |-> 0]

(* RedisHotCache.Expiry: TTL key (-2: no key, -1: no TTL) *)
Ttl(e, t) ==
    IF ~CounterLive(e, t) THEN -2
    ELSE IF e.expires = -1 THEN -1
    ELSE e.expires - t

(* the Limit value returned with an error: Limit{GotIdentifier: identifier} *)
ErrLimit ==
    [GotIdentifier |-> Identifier, Exceeded |-> FALSE, Made |-> 0, Remaining |-> 0,
     TimeToReset |-> 0, MaxRequests |-> 0, Bucket |-> ""]

(* a Limit call: pc, currentRate (cur), exceeded, and what it returned;     *)
(* for the properties, nth (its rank among the calls answered in the        *)
(* window) and win (the requests counted in the window when it returned)    *)
IdleLimit ==
    [pc |-> "idle", cur |-> 0, exceeded |-> FALSE, out |-> ErrLimit, err |-> "",
     nth |-> 0, win |-> 0]

LimitActive(r) == limits[r].pc \notin {"idle", "done"}

----------------------------------------------------------------------------
(* uapi (src/unnamed/part_005): a registered Route serving a request.       *)

(* net/http status codes *)
StatusOK == 200
StatusFound == 302
StatusUnauthorized == 401
StatusInternalServerError == 500

(* the constants InternalError and Unauthorized *)
InternalError == "{message: Something went wrong on our end, error: true}"
Unauthorized == "{message: You are not authorized to do this, error: true}"

(* the zero HttpResponse.  Json is <<>> (nil), <<"obj">> (a value           *)
(* json.Marshal encodes) or <<"chan">> (a value it rejects); Bytes and Data *)
(* are strings, Headers a set of <<key, value>> pairs.                      *)
ZeroResponse ==
    [Data |-> "", Bytes |-> "", Json |-> <<>>, Headers |-> {}, Status |-> 0,
     CacheKey |-> "", CacheTime |-> 0, Redirect |-> ""]

(* json.Marshal(msg.Json) *)
JsonMarshal(j) == [err |-> (j = <<"chan">>), bytes |-> "{obj}"]

(* what a Handler may answer *)
HandlerResponses ==
    { [ZeroResponse EXCEPT !.Data = "hello"],
      [ZeroResponse EXCEPT !.Bytes = "raw"],
      [ZeroResponse EXCEPT !.Json = <<"obj">>],
      [ZeroResponse EXCEPT !.Json = <<"obj">>, !.Data = "tail",
                           !.CacheKey = "k", !.CacheTime = 1],
      [ZeroResponse EXCEPT !.Json = <<"chan">>],
      [ZeroResponse EXCEPT !.Redirect = "/there"] }

(* the HttpResponse state.Authorize returns with ok = false *)
DeniedResponse == [ZeroResponse EXCEPT !.Status = StatusUnauthorized, !.Data = Unauthorized]

(* the HttpResponse sent when RouteDataMiddleware returns an error *)
MiddlewareErrorResponse ==
    [ZeroResponse EXCEPT !.Status = StatusInternalServerError, !.Json = <<"obj">>]

(* the HttpResponse the deferred recover() sends after a panic *)
PanicResponse ==
    [ZeroResponse EXCEPT !.Status = StatusInternalServerError, !.Data = InternalError]

(* calls on the http.ResponseWriter *)
WriteHeader(status) == [op |-> "WriteHeader", status |-> status, body |-> ""]
Write(body) == [op |-> "Write", status |-> 0, body |-> body]

(* respond's case msg, ok := <-data, for a message received (ok = true):    *)
(* the calls it makes on w, the headers it sets, and whether it starts the   *)
(* goroutine that caches the JSON                                            *)
RespondWrites(m) ==
    LET msg == IF m.Redirect # ""
               THEN [m EXCEPT !.Headers = {<<"Location", m.Redirect>>,
                                           <<"Content-Type", "text/html; charset=utf-8">>},
                              !.Data = "<a href=" \o m.Redirect \o ">Found</a>.",
                              !.Status = StatusFound]
               ELSE m
        status == IF msg.Status = 0 THEN StatusOK ELSE msg.Status
        rest == <<WriteHeader(status)>>
                \o (IF msg.Bytes # "" THEN <<Write(msg.Bytes)>> ELSE <<>>)
                \o <<Write(msg.Data)>>
    IN  IF msg.Json # <<>>
        THEN IF JsonMarshal(msg.Json).err
             THEN [calls |-> <<WriteHeader(StatusInternalServerError), Write(InternalError)>>,
                   headers |-> msg.Headers, caches |-> FALSE]
             ELSE [calls |-> <<WriteHeader(status), Write(JsonMarshal(msg.Json).bytes)>>
                             \o rest,
                   headers |-> msg.Headers,
                   caches |-> (msg.CacheKey # "" /\ msg.CacheTime > 0)]
        ELSE [calls |-> rest, headers |-> msg.Headers, caches |-> FALSE]

(* the request being served.  Program state: g (where the goroutine of      *)
(* handle is), r (where respond is), ctxDone (req.Context() is done), msg   *)
(* (the HttpResponse the goroutine sends), calls and headers (what was done *)
(* on w), mw (state.RouteDataMiddleware is set).  For the properties: why   *)
(* (what made the goroutine send), authOk and mwOk, invoked (the times the  *)
(* Handler was invoked), answer (what the Handler returned), sent (the      *)
(* messages that went through the channel), caches, and blocked (the       *)
(* goroutines of earlier requests that are still at their send).            *)
IdleHttp ==
    [g |-> "idle", r |-> "idle", ctxDone |-> FALSE, msg |-> ZeroResponse,
     calls |-> <<>>, headers |-> {}, mw |-> FALSE,
     why |-> "", authOk |-> FALSE, mwOk |-> FALSE, invoked |-> 0,
     answer |-> ZeroResponse, sent |-> 0, caches |-> FALSE, blocked |-> 0]

----------------------------------------------------------------------------
(* Calls and goroutines *)

NoOp == [kind |-> "none", id |-> <<>>, ok |-> FALSE, ret |-> NoUser, via |-> "",
         wrote |-> FALSE, both |-> FALSE, calm |-> FALSE, noise |-> FALSE]

(* The record of a call or goroutine.  Program state: kind, pc, id, u (the  *)
(* user cachedReturn works on), req, cleared (ClearUserInfo.ClearedFrom),    *)
(* ret and err (what it returned).  Bookkeeping for the properties: acc     *)
(* (the accesses made, in order; a background goroutine starts with the     *)
(* accesses of the call that launched it), via (the tier that answered),    *)
(* got (the user that tier gave), spawned (goroutines launched), age (the   *)
(* row's age when it was tested), sawLive (redis held an unexpired entry    *)
(* when it was read), pred (the call that completed just before this one    *)
(* began), calm (no other call ran meanwhile), noise (a background          *)
(* goroutine ran meanwhile), both (ClearUser of both tiers, both filled),   *)
(* hadRow and hadEntry (the tiers held the identity when the call began),  *)
(* inits (the times the call ran InitPlatform to success).  ctxDone: the    *)
(* ctx the goroutine got from the call that launched it is cancelled.       *)
IdleActor ==
    [kind |-> "none", pc |-> "idle", id |-> <<>>, u |-> NoUser,
     ret |-> NoUser, err |-> "", acc |-> <<>>, got |-> NoUser, via |-> "",
     req |-> <<>>, cleared |-> <<>>, task |-> "none", parent |-> "none",
     spawned |-> 0, age |-> -1, sawLive |-> FALSE,
     pred |-> NoOp, calm |-> FALSE, noise |-> FALSE, both |-> FALSE,
     inits |-> 0, ctxDone |-> FALSE, hadRow |-> FALSE, hadEntry |-> FALSE]

Active(x) == actors[x].pc \notin {"idle", "done"}

(* bookkeeping: what a completed call leaves behind for the next one *)
Summary(r) ==
    [kind |-> r.kind, id |-> r.id, ok |-> (r.err = ""), ret |-> r.ret, via |-> r.via,
     wrote |-> (\E i \in 1..Len(r.acc) : r.acc[i] = <<"redis_set", "ok">>),
     both |-> r.both, calm |-> r.calm, noise |-> r.noise]

(* bookkeeping: a step of actor a on identity id is seen by the other calls *)
(* that are running on the same identity                                    *)
Seen(x, a, id) ==
    IF x \in Calls /\ Active(x) /\ actors[x].id = id
    THEN IF a \in Tasks THEN [actors[x] EXCEPT !.noise = TRUE]
         ELSE [actors[x] EXCEPT !.calm = FALSE, !.pred = NoOp]
    ELSE actors[x]

StepHist(a, na) ==
    IF a \in Tasks
    THEN IF hist.id = na.id THEN [hist EXCEPT !.noise = TRUE] ELSE hist
    ELSE IF na.pc = "done" THEN Summary(na)
    ELSE hist

(* actor a moves to record na *)
Step(a, na) ==
    /\ actors' = [x \in Actors |-> IF x = a THEN na ELSE Seen(x, a, na.id)]
    /\ hist' = StepHist(a, na)

Log(r, op, res) == [r EXCEPT !.acc = Append(@, <<op, res>>)]

(* return u, err *)
Return(r, u, err) == [r EXCEPT !.pc = "done", !.ret = u, !.err = err, !.u = NoUser]

TypeOK ==
    /\ initialized \in BOOLEAN
    /\ now \in 0..MaxTime
    /\ started \in 0..MaxCalls
    /\ DOMAIN pg = Ids /\ DOMAIN redis = Ids
    /\ DOMAIN actors = Actors

Init ==
    /\ initialized = FALSE
    /\ now = 0
    /\ pg \in {[i \in Ids |-> NoRow],
               [i \in Ids |-> IF i = IdValid THEN OldRow ELSE NoRow]}
    /\ redis = [i \in Ids |-> NoEntry]
    /\ actors = [x \in Actors |-> IdleActor]
    /\ started = 0
    /\ subject \in Ids
    /\ concurrent = FALSE
    /\ faults = 0
    /\ hist = NoOp
    /\ mwBlank = FALSE
    /\ rl = NoCounter
    /\ limits = [r \in Limiters |-> IdleLimit]
    /\ http = IdleHttp

----------------------------------------------------------------------------
(* Failures of the environment (database, redis, platform, middleware) are  *)
(* chosen freely, up to MaxFaults of them in one behaviour.                 *)

MayFail == IF faults < MaxFaults THEN {FALSE, TRUE} ELSE {FALSE}
Fault(fail) == faults' = IF fail THEN faults + 1 ELSE faults

(* the outcomes of the middlewares when middleware k fails (k = 0: none) *)
(* under the configuration of the run                                     *)
MwOuts(k) ==
    [i \in 1..Len(Middlewares) |->
        IF i = k THEN "err"
        ELSE IF mwBlank /\ i = Len(Middlewares) THEN "blank"
        ELSE "ok"]
MayFailMw == IF faults < MaxFaults THEN 0..Len(Middlewares) ELSE {0}

(* a cachedReturn that, when a middleware fails, skips the caching and      *)
(* hands the resolved user back without error                               *)
CachedReturnKeepsUser(r, u, k) ==
    LET res == RunMiddlewares(DefaultDisplayName(u), 1, MwOuts(k), <<>>)
        r2 == [r EXCEPT !.acc = @ \o res.ev, !.got = u]
    IN  IF res.err # "" THEN Return(r2, DefaultDisplayName(u), "")
        ELSE [r2 EXCEPT !.pc = "cr_upsert", !.u = res.u]

(* cachedReturn(u) up to the upsert: u is not nil, display name default,    *)
(* middleware loop (all of it local to the goroutine)                       *)
CachedReturn(r, u, k) ==
    LET res == RunMiddlewares(DefaultDisplayName(u), 1, MwOuts(k), <<>>)
        r2 == [r EXCEPT !.acc = @ \o res.ev, !.got = u]
    IN  IF res.err # "" THEN Return(r2, NoUser, res.err)
        ELSE [r2 EXCEPT !.pc = "cr_upsert", !.u = res.u]

----------------------------------------------------------------------------
(* GetUser and ClearUser: entry and platform initialisation *)

(* where a call continues once the platform is initialised *)
FirstPc(r) ==
    IF r.kind = "get" THEN "probe"
    ELSE IF SelectsIuc(r.req) THEN "clr_count" ELSE "clr_redis"

(* a caller calls GetUser(ctx, id, platform) or ClearUser(ctx, id, platform, req); *)
(* the call starts with if !platform.Initted().  The second call slot is    *)
(* used for a call that runs concurrently with the first.  The records of   *)
(* the background goroutines that have ended are dropped, but for the one   *)
(* launched by the last call of the other caller.                           *)
Enter(c, counted) ==
    /\ c \in Calls
    /\ ~Active(c)
    /\ c = "c2" => concurrent /\ Active("c1")
    /\ counted => started < (IF concurrent THEN MaxConcCalls ELSE MaxCalls)
    /\ \E id \in {subject}, kind \in {"get", "clear"}, req \in ClearReqs :
         /\ kind = "get" => req = <<>>
         /\ LET quiet == \A x \in Calls \ {c} : ~(Active(x) /\ actors[x].id = id)
                r0 == [IdleActor EXCEPT !.kind = kind, !.req = req]
                na == [r0 EXCEPT
                         !.pc = IF initialized THEN FirstPc(r0) ELSE "init_platform",
                         !.id = id,
                         !.pred = IF quiet /\ hist.id = id THEN hist ELSE NoOp,
                         !.calm = quiet,
                         !.noise = \E t \in Tasks : Active(t) /\ actors[t].id = id,
                         !.hadRow = (pg[id] # NoRow),
                         !.hadEntry = RedisLive(redis[id], now),
                         !.both = /\ kind = "clear"
                                  /\ SelectsIuc(req) /\ SelectsRedis(req)
                                  /\ pg[id] # NoRow /\ RedisLive(redis[id], now)]
            IN  actors' = [x \in Actors |->
                             IF x = c THEN na
                             ELSE IF /\ x \in Tasks /\ actors[x].pc = "done"
                                     /\ \/ actors[x].parent = c
                                        \/ actors[actors[x].parent].task # x
                                  THEN IdleActor
                             ELSE actors[x]]
    /\ started' = IF counted THEN started + 1 ELSE started
    /\ UNCHANGED <<initialized, now, pg, redis, subject, concurrent, mwBlank, rl, limits, http, faults, hist>>

(* a call in a run of at most MaxCalls calls *)
Begin(c) == Enter(c, TRUE)

(* a call of a caller that comes back for ever, each time after the         *)
(* goroutines of its earlier calls have ended                               *)
BeginAgain(c) ==
    /\ \A t \in Tasks : ~Active(t)
    /\ Enter(c, FALSE)

(* the ways InitPlatform can go wrong: it returns an error, or Init        *)
(* returns nil and Initted() is false afterwards                            *)
InitErrors == {"failed to init platform",
               "platform init() did not set initted() to true"}

(* a call that goes on after a failed initialisation *)
InitPlatformErrIgnored(a) ==
    /\ a \in Calls
    /\ actors[a].pc = "init_platform"
    /\ \E fail \in MayFail :
         /\ Fault(fail)
         /\ IF fail
            THEN /\ Step(a, [actors[a] EXCEPT !.pc = FirstPc(actors[a])])
                 /\ UNCHANGED initialized
            ELSE /\ initialized' = TRUE
                 /\ Step(a, [actors[a] EXCEPT !.pc = FirstPc(actors[a]), !.inits = @ + 1])
    /\ UNCHANGED <<now, pg, redis, started, subject, concurrent, mwBlank, rl, limits, http>>

(* err := InitPlatform(platform) (CREATE TABLE IF NOT EXISTS, then         *)
(* platform.Init()) and the two checks that follow it                       *)
InitPlatform(a) ==
    /\ a \in Calls
    /\ actors[a].pc = "init_platform"
    /\ \E fail \in MayFail :
         /\ Fault(fail)
         /\ IF fail
            THEN /\ \E e \in InitErrors : Step(a, Return(actors[a], NoUser, e))
                 /\ UNCHANGED initialized
            ELSE /\ initialized' = TRUE
                 /\ Step(a, [actors[a] EXCEPT !.pc = FirstPc(actors[a]), !.inits = @ + 1])
    /\ UNCHANGED <<now, pg, redis, started, subject, concurrent, mwBlank, rl, limits, http>>

----------------------------------------------------------------------------
(* GetUser: the tiers *)

(* a probe whose error is taken for 'absent' *)
AfterProbeErrAbsent(r, out, k) ==
    IF out = "hit" THEN CachedReturn([r EXCEPT !.via = "live"], LiveUser(r.id), k)
    ELSE [r EXCEPT !.pc = "redis_get"]

(* a probe hit that is returned without cachedReturn *)
AfterProbeHitNoPersist(r, out, k) ==
    IF out = "err" THEN Return(r, NoUser, "platformSpecificCache failed")
    ELSE IF out = "hit"
         THEN Return([r EXCEPT !.via = "live", !.got = LiveUser(r.id)],
                     DefaultDisplayName(LiveUser(r.id)), "")
    ELSE [r EXCEPT !.pc = "redis_get"]

(* uCached, err := platform.PlatformSpecificCache(ctx, id) *)
AfterProbe(r, out, k) ==
    IF out = "err" THEN Return(r, NoUser, "platformSpecificCache failed")
    ELSE IF out = "hit" THEN CachedReturn([r EXCEPT !.via = "live"], LiveUser(r.id), k)
    ELSE [r EXCEPT !.pc = "redis_get"]

Probe(a) ==
    /\ a \in Calls
    /\ actors[a].pc = "probe"
    /\ \/ \E fail \in MayFail :
            /\ Fault(fail)
            /\ LET out == IF fail THEN "err" ELSE "absent"
               IN  Step(a, AfterProbe(Log(actors[a], "probe", out), out, 0))
       \/ \E k \in MayFailMw :
            /\ Fault(k # 0)
            /\ Step(a, AfterProbe(Log(actors[a], "probe", "hit"), "hit", k))
    /\ UNCHANGED <<initialized, now, pg, redis, started, subject, concurrent, mwBlank, rl, limits, http>>

(* a fast-cache hit that goes through cachedReturn like the other tiers *)
AfterRedisGetWritesThrough(r, out, e) ==
    IF out = "hit"
    THEN CachedReturn([r EXCEPT !.via = "redis"],
                      [Unmarshal(e.bytes) EXCEPT !.ExtraData = {<<"cache", "redis">>}], 0)
    ELSE [r EXCEPT !.pc = "pg_count"]

(* a read of the fast cache whose result is never used *)
AfterRedisGetIgnored(r, out, e) == [r EXCEPT !.pc = "pg_count"]

(* a GetUser that gives up when the fast cache cannot be read or decoded *)
AfterRedisGetDecodeFatal(r, out, e) ==
    IF out = "hit"
    THEN Return([r EXCEPT !.via = "redis"],
                [Unmarshal(e.bytes) EXCEPT !.ExtraData = {<<"cache", "redis">>}], "")
    ELSE IF out \in {"err", "undecodable"} THEN Return(r, NoUser, "redis")
    ELSE [r EXCEPT !.pc = "pg_count"]

(* userBytes, err := state.Redis.Get(...).Result(); if err == nil {         *)
(* err = json.Unmarshal(...); if err == nil { return } }                    *)
AfterRedisGet(r, out, e) ==
    IF out = "hit"
    THEN Return([r EXCEPT !.via = "redis"],
                [Unmarshal(e.bytes) EXCEPT !.ExtraData = {<<"cache", "redis">>}], "")
    ELSE [r EXCEPT !.pc = "pg_count"]

RedisGet(a) ==
    /\ a \in Calls
    /\ actors[a].pc = "redis_get"
    /\ \E fail \in MayFail :
         /\ Fault(fail)
         /\ LET e == redis[actors[a].id]
                out == IF fail THEN "err"
                       ELSE IF ~RedisLive(e, now) THEN "miss"
                       ELSE IF UnmarshalErr(e.bytes) THEN "undecodable"
                       ELSE "hit"
                r == [actors[a] EXCEPT !.sawLive = (e # NoEntry /\ now < e.expires)]
            IN  Step(a, AfterRedisGet(Log(r, "redis_get", out), out, e))
    /\ UNCHANGED <<initialized, now, pg, redis, started, subject, concurrent, mwBlank, rl, limits, http>>

(* a count whose result is never used *)
AfterPgCountIgnored(r, out) == [r EXCEPT !.pc = "fetch"]

(* SELECT COUNT ...; if err == nil && count > 0 *)
AfterPgCount(r, out) ==
    IF out = "hit" THEN [r EXCEPT !.pc = "pg_last"] ELSE [r EXCEPT !.pc = "fetch"]

PgCount(a) ==
    /\ a \in Calls
    /\ actors[a].pc = "pg_count"
    /\ \E fail \in MayFail :
         /\ Fault(fail)
         /\ LET out == IF fail THEN "err"
                       ELSE IF RowCount(pg[actors[a].id]) > 0 THEN "hit" ELSE "miss"
            IN  Step(a, AfterPgCount(Log(actors[a], "pg_count", out), out))
    /\ UNCHANGED <<initialized, now, pg, redis, started, subject, concurrent, mwBlank, rl, limits, http>>

(* the record a new goroutine gets: the first one that is free *)
FreeTask == IF actors["t1"].kind = "none" THEN "t1" ELSE "t2"

(* a refresh that is not started while another one is running *)
SpawnsRefreshSingleFlight(stale) == stale /\ \A t \in Tasks : ~Active(t)

(* the goroutine started on every hit *)
SpawnsRefreshAlways(stale) == TRUE

(* go func() { ... }() is started exactly when the row is stale *)
SpawnsRefresh(stale) == stale

(* SELECT last_updated ...; if time.Since(lastUpdated) > state.UserExpiryTime *)
(* The scan fails with ErrNoRows when the row is gone.                      *)
PgLast(a) ==
    /\ a \in Calls
    /\ actors[a].pc = "pg_last"
    /\ \E fail \in MayFail :
         /\ Fault(fail)
         /\ LET r == actors[a]
                row == pg[r.id]
            IN  IF fail \/ row = NoRow
                THEN Step(a, Return(Log(r, "pg_last", "err"), NoUser, "pg"))
                ELSE LET stale == IsStale(row.last_updated, now)
                         r2 == [Log(r, "pg_last", IF stale THEN "stale" ELSE "fresh")
                                  EXCEPT !.age = now - row.last_updated]
                     IN  IF SpawnsRefresh(stale)
                         THEN \E t \in {FreeTask} :
                                /\ actors[t].kind = "none"
                                /\ actors' =
                                     [x \in Actors |->
                                        IF x = a
                                        THEN [r2 EXCEPT !.pc = "pg_row", !.task = t,
                                                        !.spawned = @ + 1]
                                        ELSE IF x = t
                                        THEN [IdleActor EXCEPT
                                                !.kind = "bg", !.pc = "bg_fetch",
                                                !.id = r.id, !.parent = a,
                                                !.acc = r2.acc]
                                        ELSE Seen(x, a, r.id)]
                                /\ hist' = hist
                         ELSE Step(a, [r2 EXCEPT !.pc = "pg_row"])
    /\ UNCHANGED <<initialized, now, pg, redis, started, subject, concurrent, mwBlank, rl, limits, http>>

(* SELECT username, display_name, avatar, bot, created_at ...; then        *)
(* cachedReturn of the user built from the row                              *)
PgRow(a) ==
    /\ a \in Calls
    /\ actors[a].pc = "pg_row"
    /\ LET r == actors[a]
           row == pg[r.id]
       IN  \/ /\ row = NoRow
              /\ Fault(FALSE)
              /\ Step(a, Return(Log(r, "pg_row", "err"), NoUser, "pg"))
           \/ /\ row # NoRow
              /\ TRUE \in MayFail
              /\ Fault(TRUE)
              /\ Step(a, Return(Log(r, "pg_row", "err"), NoUser, "pg"))
           \/ /\ row # NoRow
              /\ \E k \in MayFailMw :
                   /\ Fault(k # 0)
                   /\ Step(a, CachedReturn([Log(r, "pg_row", "ok") EXCEPT !.via = "pg"],
                                            RowUser(r.id, row), k))
    /\ UNCHANGED <<initialized, now, pg, redis, started, subject, concurrent, mwBlank, rl, limits, http>>

(* a GetUser that, when the fetch fails, falls back on an empty user and    *)
(* caches it                                                                *)
FetchErrFallsBack(a) ==
    /\ a \in Calls
    /\ actors[a].pc = "fetch"
    /\ \/ /\ TRUE \in MayFail
          /\ Fault(TRUE)
          /\ Step(a, CachedReturn([Log(actors[a], "fetch", "err") EXCEPT !.via = "fetch"],
                                   RemoteUser(actors[a].id, [Username |-> "", DisplayName |-> ""]),
                                   0))
       \/ \E p \in RemoteProfiles, k \in MayFailMw :
            /\ Fault(k # 0)
            /\ LET user == RemoteUser(actors[a].id, p)
               IN  Step(a, CachedReturn([Log(actors[a], "fetch", "ok") EXCEPT !.via = "fetch"],
                                        user, k))
    /\ UNCHANGED <<initialized, now, pg, redis, started, subject, concurrent, mwBlank, rl, limits, http>>

(* user, err := platform.GetUser(ctx, id) in the foreground, then           *)
(* cachedReturn(user)                                                       *)
Fetch(a) ==
    /\ a \in Calls
    /\ actors[a].pc = "fetch"
    /\ \/ /\ TRUE \in MayFail
          /\ Fault(TRUE)
          /\ Step(a, Return(Log(actors[a], "fetch", "err"), NoUser,
                            "failed to get user from platform"))
       \/ \E p \in RemoteProfiles, k \in MayFailMw :
            /\ Fault(k # 0)
            /\ LET user == RemoteUser(actors[a].id, p)
               IN  Step(a, CachedReturn([Log(actors[a], "fetch", "ok") EXCEPT !.via = "fetch"],
                                        user, k))
    /\ UNCHANGED <<initialized, now, pg, redis, started, subject, concurrent, mwBlank, rl, limits, http>>

(* the background goroutine: platform.GetUser; on error log and return,     *)
(* else cachedReturn of a new PlatformUser built from the fetched one       *)
(* the error branch without its return: cachedReturn of a zero user *)
AfterBgFetchErrGoOn(r) ==
    [r EXCEPT !.pc = "cr_upsert",
              !.u = RefreshUser(r.id, [Username |-> "", DisplayName |-> "", Avatar |-> "",
                                       Bot |-> FALSE, Status |-> ""])]

AfterBgFetchErr(r) ==
    [r EXCEPT !.pc = "done", !.err = "failed to update expired user cache"]

(* platform.GetUser(ctx, id) is given the ctx of the call that launched    *)
(* the goroutine: an adapter that honours its ctx returns an error once     *)
(* that ctx is cancelled, one that ignores it (DiscordState) does not       *)
CtxStopsFetch(cancelled) == IF cancelled THEN {FALSE, TRUE} ELSE {FALSE}

BgFetch(t) ==
    /\ t \in Tasks
    /\ actors[t].pc = "bg_fetch"
    /\ \/ /\ TRUE \in MayFail
          /\ Fault(TRUE)
          /\ Step(t, AfterBgFetchErr(Log(actors[t], "fetch", "err")))
       \/ /\ TRUE \in CtxStopsFetch(actors[t].ctxDone)
          /\ Fault(FALSE)
          /\ Step(t, AfterBgFetchErr(Log(actors[t], "fetch", "err")))
       \/ \E p \in RemoteProfiles, k \in MayFailMw :
            /\ Fault(k # 0)
            /\ LET user == RemoteUser(actors[t].id, p)
               IN  Step(t, CachedReturn([Log(actors[t], "fetch", "ok") EXCEPT !.via = "fetch"],
                                        RefreshUser(actors[t].id, user), k))
    /\ UNCHANGED <<initialized, now, pg, redis, started, subject, concurrent, mwBlank, rl, limits, http>>

----------------------------------------------------------------------------
(* cachedReturn, continued: upsert, redis SET.  It runs in the calling      *)
(* goroutine: a GetUser call or a background task.                          *)

(* a cachedReturn without its INSERT *)
CrUpsertSkips(a) ==
    /\ actors[a].pc = "cr_upsert"
    /\ Fault(FALSE)
    /\ Step(a, [actors[a] EXCEPT !.pc = "cr_set"])
    /\ UNCHANGED <<initialized, now, pg, redis, started, subject, concurrent, mwBlank, rl, limits, http>>

(* state.Pool.Exec(INSERT ... ON CONFLICT (id) DO UPDATE ...) with u.ID *)
CrUpsert(a) ==
    /\ actors[a].pc = "cr_upsert"
    /\ \E fail \in MayFail :
         /\ Fault(fail)
         /\ LET r == actors[a]
            IN  IF fail
                THEN /\ Step(a, Return(Log(r, "upsert", "err"), NoUser,
                                       "failed to update internal user cache"))
                     /\ UNCHANGED pg
                ELSE /\ pg' = [pg EXCEPT ![r.u.ID] = Upsert(@, r.u, now)]
                     /\ Step(a, [Log(r, "upsert", "ok") EXCEPT !.pc = "cr_set"])
    /\ UNCHANGED <<initialized, now, redis, started, subject, concurrent, mwBlank, rl, limits, http>>

(* a cachedReturn that returns the error of the redis SET *)
CrRedisSetFatal(a) ==
    /\ actors[a].pc = "cr_set"
    /\ \E fail \in MayFail :
         /\ Fault(fail)
         /\ LET r == actors[a]
            IN  IF fail
                THEN /\ Step(a, Return(Log(r, "redis_set", "err"), NoUser,
                                       "failed to update redis"))
                     /\ UNCHANGED redis
                ELSE /\ redis' = [redis EXCEPT
                                    ![r.id] = RedisEntry(Marshal(r.u), now, UserExpiryTime)]
                     /\ Step(a, Return(Log(r, "redis_set", "ok"), r.u, ""))
    /\ UNCHANGED <<initialized, now, pg, started, subject, concurrent, mwBlank, rl, limits, http>>

(* json.Marshal(u); state.Redis.Set(key(id), bytes, UserExpiryTime), whose  *)
(* result is not looked at; return u, nil                                   *)
CrRedisSet(a) ==
    /\ actors[a].pc = "cr_set"
    /\ \E fail \in MayFail :
         /\ Fault(fail)
         /\ LET r == actors[a]
            IN  IF fail
                THEN /\ Step(a, Return(Log(r, "redis_set", "err"), r.u, ""))
                     /\ UNCHANGED redis
                ELSE /\ redis' = [redis EXCEPT
                                    ![r.id] = RedisEntry(Marshal(r.u), now, UserExpiryTime)]
                     /\ Step(a, Return(Log(r, "redis_set", "ok"), r.u, ""))
    /\ UNCHANGED <<initialized, now, pg, started, subject, concurrent, mwBlank, rl, limits, http>>

----------------------------------------------------------------------------
(* ClearUser *)

(* a ClearUser that deletes the redis key whatever was selected *)
AfterIucAlwaysRedis(r) == [r EXCEPT !.pc = "clr_redis"]

(* the redis part follows the table part when it is selected *)
AfterIuc(r) ==
    IF SelectsRedis(r.req) THEN [r EXCEPT !.pc = "clr_redis"]
    ELSE Return(r, NoUser, "")

(* SELECT COUNT ... ; if count > 0 *)
ClrCount(a) ==
    /\ a \in Calls
    /\ actors[a].pc = "clr_count"
    /\ \E fail \in MayFail :
         /\ Fault(fail)
         /\ LET r == actors[a]
            IN  IF fail THEN Step(a, Return(Log(r, "pg_count", "err"), NoUser, "pg"))
                ELSE IF RowCount(pg[r.id]) > 0
                THEN Step(a, [Log(r, "pg_count", "hit") EXCEPT !.pc = "clr_delete"])
                ELSE Step(a, AfterIuc(Log(r, "pg_count", "miss")))
    /\ UNCHANGED <<initialized, now, pg, redis, started, subject, concurrent, mwBlank, rl, limits, http>>

(* DELETE FROM table WHERE id = $1 *)
ClrDelete(a) ==
    /\ a \in Calls
    /\ actors[a].pc = "clr_delete"
    /\ \E fail \in MayFail :
         /\ Fault(fail)
         /\ LET r == actors[a]
            IN  IF fail
                THEN /\ Step(a, Return(Log(r, "pg_delete", "err"), NoUser, "pg"))
                     /\ UNCHANGED pg
                ELSE /\ pg' = [pg EXCEPT ![r.id] = NoRow]
                     /\ Step(a, AfterIuc([Log(r, "pg_delete", "ok") EXCEPT
                                   !.cleared = Append(@, ClearFromInternalUserCache)]))
    /\ UNCHANGED <<initialized, now, redis, started, subject, concurrent, mwBlank, rl, limits, http>>

(* a Del that removes nothing *)
ClrRedisKeeps(a) ==
    /\ a \in Calls
    /\ actors[a].pc = "clr_redis"
    /\ \E fail \in MayFail :
         /\ Fault(fail)
         /\ LET r == actors[a]
            IN  IF fail
                THEN Step(a, Return(Log(r, "redis_del", "err"), NoUser, "redis"))
                ELSE Step(a, Return([Log(r, "redis_del", "ok") EXCEPT
                                   !.cleared = Append(@, ClearFromRedis)], NoUser, ""))
    /\ UNCHANGED <<initialized, now, pg, redis, started, subject, concurrent, mwBlank, rl, limits, http>>

(* state.Redis.Del(key(id)) *)
ClrRedis(a) ==
    /\ a \in Calls
    /\ actors[a].pc = "clr_redis"
    /\ \E fail \in MayFail :
         /\ Fault(fail)
         /\ LET r == actors[a]
            IN  IF fail
                THEN /\ Step(a, Return(Log(r, "redis_del", "err"), NoUser, "redis"))
                     /\ UNCHANGED redis
                ELSE /\ redis' = [redis EXCEPT ![r.id] = NoEntry]
                     /\ Step(a, Return([Log(r, "redis_del", "ok") EXCEPT
                                   !.cleared = Append(@, ClearFromRedis)], NoUser, ""))
    /\ UNCHANGED <<initialized, now, pg, started, subject, concurrent, mwBlank, rl, limits, http>>

----------------------------------------------------------------------------
(* Ratelimit.Limit, one hot cache operation at a time.  Every operation     *)
(* may fail; Limit then returns Limit{GotIdentifier: identifier} and the    *)
(* error.                                                                   *)

LimitFail(r) == [limits[r] EXCEPT !.pc = "done", !.out = ErrLimit, !.err = "hotcache"]

LimitFrame == UNCHANGED <<initialized, now, pg, redis, actors, subject, concurrent,
                          mwBlank, hist, http>>

(* a request comes in: rl.Limit(ctx, r) *)
LimitBegin(r) ==
    /\ r \in Limiters
    /\ ~LimitActive(r)
    /\ r = "r2" => concurrent /\ LimitActive("r1")
    /\ started < (IF concurrent THEN MaxConcCalls ELSE MaxCalls)
    /\ limits' = [limits EXCEPT ![r] = [IdleLimit EXCEPT !.pc = "exists"]]
    /\ started' = started + 1
    /\ UNCHANGED <<rl, faults>>
    /\ LimitFrame

(* exists, err := State.HotCache.Exists(ctx, key) *)
LimitExists(r) ==
    /\ limits[r].pc = "exists"
    /\ \E fail \in MayFail :
         /\ Fault(fail)
         /\ limits' = [limits EXCEPT ![r] =
                IF fail THEN LimitFail(r)
                ELSE [@ EXCEPT !.pc = IF Exists(rl, now) THEN "get" ELSE "set"]]
    /\ UNCHANGED <<rl, started>>
    /\ LimitFrame

(* if !exists { err = State.HotCache.Set(ctx, key, &zero, rl.Expiry) } *)
LimitSet(r) ==
    /\ limits[r].pc = "set"
    /\ \E fail \in MayFail :
         /\ Fault(fail)
         /\ IF fail
            THEN limits' = [limits EXCEPT ![r] = LimitFail(r)] /\ UNCHANGED rl
            ELSE /\ rl' = Set(0, now, Expiry)
                 /\ limits' = [limits EXCEPT ![r].pc = "get"]
    /\ UNCHANGED started
    /\ LimitFrame

(* exceeded := *currentRate > rl.MaxRequests *)
Exceeded(currentRate) == currentRate > MaxRequests

(* currentRate, err := State.HotCache.Get(ctx, key); not found counts as 0; *)
(* exceeded := *currentRate > rl.MaxRequests                                *)
LimitGet(r) ==
    /\ limits[r].pc = "get"
    /\ \E fail \in MayFail :
         /\ Fault(fail)
         /\ limits' = [limits EXCEPT ![r] =
                IF fail THEN LimitFail(r)
                ELSE [@ EXCEPT !.pc = "incr", !.cur = Get(rl, now).val,
                               !.exceeded = Exceeded(Get(rl, now).val)]]
    /\ UNCHANGED <<rl, started>>
    /\ LimitFrame

(* err = State.HotCache.IncrementOne(ctx, key) *)
LimitIncrementOne(r) ==
    /\ limits[r].pc = "incr"
    /\ \E fail \in MayFail :
         /\ Fault(fail)
         /\ IF fail
            THEN limits' = [limits EXCEPT ![r] = LimitFail(r)] /\ UNCHANGED rl
            ELSE /\ rl' = IncrementOne(rl, now)
                 /\ limits' = [limits EXCEPT ![r].pc = "expiry"]
    /\ UNCHANGED started
    /\ LimitFrame

(* the Limit value returned without error; Remaining is not set *)
LimitValue(exceeded, currentRate, resetTime) ==
    [GotIdentifier |-> Identifier, Exceeded |-> exceeded, Made |-> currentRate,
     Remaining |-> 0, TimeToReset |-> resetTime, MaxRequests |-> MaxRequests,
     Bucket |-> Bucket]

(* resetTime, err := State.HotCache.Expiry(ctx, key); return Limit{...}, nil *)
LimitExpiry(r) ==
    /\ limits[r].pc = "expiry"
    /\ \E fail \in MayFail :
         /\ Fault(fail)
         /\ IF fail
            THEN limits' = [limits EXCEPT ![r] = LimitFail(r)] /\ UNCHANGED rl
            ELSE /\ limits' = [limits EXCEPT ![r] =
                       [@ EXCEPT !.pc = "done",
                                 !.out = LimitValue(limits[r].exceeded, limits[r].cur,
                                                    Ttl(rl, now)),
                                 !.nth = IF rl = NoCounter THEN 0 ELSE rl.answered + 1,
                                 !.win = Get(rl, now).val]]
                 /\ rl' = IF rl = NoCounter THEN rl
                          ELSE [rl EXCEPT !.answered = @ + 1,
                                          !.passed = IF limits[r].exceeded THEN @ ELSE @ + 1]
    /\ UNCHANGED started
    /\ LimitFrame

----------------------------------------------------------------------------
(* the caller cancels the ctx it gave GetUser (or its deadline passes)      *)
(* after GetUser has returned; the goroutine the call launched holds the    *)
(* same ctx                                                                 *)
CancelCtx(t) ==
    /\ t \in Tasks
    /\ actors[t].pc = "bg_fetch"
    /\ ~actors[t].ctxDone
    /\ ~(Active(actors[t].parent) /\ actors[actors[t].parent].task = t)
    /\ actors' = [actors EXCEPT ![t].ctxDone = TRUE]
    /\ UNCHANGED <<initialized, now, pg, redis, started, subject, concurrent, mwBlank, rl, limits, http,
                   faults, hist>>

----------------------------------------------------------------------------
(* time passes *)
Tick ==
    /\ now < MaxTime
    /\ now' = now + 1
    /\ UNCHANGED <<initialized, pg, redis, actors, started, subject, concurrent, mwBlank, rl, limits, http, faults, hist>>

Next ==
    \/ \E c \in Calls : Begin(c)
    \/ \E c \in Calls : InitPlatform(c)
    \/ \E c \in Calls : Probe(c)
    \/ \E c \in Calls : RedisGet(c)
    \/ \E c \in Calls : PgCount(c)
    \/ \E c \in Calls : PgLast(c)
    \/ \E c \in Calls : PgRow(c)
    \/ \E c \in Calls : Fetch(c)
    \/ \E t \in Tasks : BgFetch(t)
    \/ \E a \in Actors : CrUpsert(a)
    \/ \E a \in Actors : CrRedisSet(a)
    \/ \E c \in Calls : ClrCount(c)
    \/ \E c \in Calls : ClrDelete(c)
    \/ \E c \in Calls : ClrRedis(c)
    \/ \E t \in Tasks : CancelCtx(t)
    \/ Tick

Spec == Init /\ [][Next]_vars

(* the ratelimit alone: requests come in one after another *)
InitRL ==
    /\ initialized = FALSE
    /\ now = 0
    /\ pg = [i \in Ids |-> NoRow]
    /\ redis = [i \in Ids |-> NoEntry]
    /\ actors = [x \in Actors |-> IdleActor]
    /\ started = 0
    /\ subject = IdValid
    /\ concurrent = FALSE
    /\ faults = 0
    /\ hist = NoOp
    /\ mwBlank = FALSE
    /\ rl = NoCounter
    /\ limits = [r \in Limiters |-> IdleLimit]
    /\ http = IdleHttp

NextRL ==
    \/ \E r \in Limiters : LimitBegin(r)
    \/ \E r \in Limiters : LimitExists(r)
    \/ \E r \in Limiters : LimitSet(r)
    \/ \E r \in Limiters : LimitGet(r)
    \/ \E r \in Limiters : LimitIncrementOne(r)
    \/ \E r \in Limiters : LimitExpiry(r)
    \/ Tick

SpecRL == InitRL /\ [][NextRL]_vars

(* the ratelimit under two requests of one remote address handled at the    *)
(* same time, with a hot cache that does not fail                           *)
InitRLConc ==
    /\ initialized = FALSE
    /\ now = 0
    /\ pg = [i \in Ids |-> NoRow]
    /\ redis = [i \in Ids |-> NoEntry]
    /\ actors = [x \in Actors |-> IdleActor]
    /\ started = 0
    /\ subject = IdValid
    /\ concurrent = TRUE
    /\ faults = MaxFaults
    /\ hist = NoOp
    /\ mwBlank = FALSE
    /\ rl = NoCounter
    /\ limits = [r \in Limiters |-> IdleLimit]
    /\ http = IdleHttp

SpecRLConc == InitRLConc /\ [][NextRL]_vars

(* the last middleware registered blanks the display name *)
InitMw ==
    /\ initialized = FALSE
    /\ now = 0
    /\ pg \in {[i \in Ids |-> NoRow],
               [i \in Ids |-> IF i = IdValid THEN OldRow ELSE NoRow]}
    /\ redis = [i \in Ids |-> NoEntry]
    /\ actors = [x \in Actors |-> IdleActor]
    /\ started = 0
    /\ subject \in Ids
    /\ concurrent = FALSE
    /\ faults = 0
    /\ hist = NoOp
    /\ mwBlank = TRUE
    /\ rl = NoCounter
    /\ limits = [r \in Limiters |-> IdleLimit]
    /\ http = IdleHttp

SpecMw == InitMw /\ [][Next]_vars

(* the fast cache holds, under the identity's key, bytes that do not        *)
(* decode, with a TTL that outlasts the run                                 *)
InitGarbage ==
    /\ initialized = FALSE
    /\ now = 0
    /\ pg \in {[i \in Ids |-> NoRow],
               [i \in Ids |-> IF i = IdValid THEN OldRow ELSE NoRow]}
    /\ redis = [i \in Ids |-> IF i = IdValid
                                THEN RedisEntry(Garbage, 0, MaxTime + 1)
                                ELSE NoEntry]
    /\ actors = [x \in Actors |-> IdleActor]
    /\ started = 0
    /\ subject = IdValid
    /\ concurrent = FALSE
    /\ faults = 0
    /\ hist = NoOp
    /\ mwBlank = FALSE
    /\ rl = NoCounter
    /\ limits = [r \in Limiters |-> IdleLimit]
    /\ http = IdleHttp

SpecGarbage == InitGarbage /\ [][Next]_vars

(* two calls at a time on an identity with a row in the table, in an        *)
(* environment that does not fail                                           *)
InitConc ==
    /\ initialized = FALSE
    /\ now = 0
    /\ pg = [i \in Ids |-> IF i = IdValid THEN OldRow ELSE NoRow]
    /\ redis = [i \in Ids |-> NoEntry]
    /\ actors = [x \in Actors |-> IdleActor]
    /\ started = 0
    /\ subject = IdValid
    /\ concurrent = TRUE
    /\ faults = MaxFaults
    /\ hist = NoOp
    /\ mwBlank = FALSE
    /\ rl = NoCounter
    /\ limits = [r \in Limiters |-> IdleLimit]
    /\ http = IdleHttp

SpecConc == InitConc /\ [][Next]_vars

(* the Go scheduler lets every goroutine that can run make its next step *)
FairSpecConc ==
    /\ SpecConc
    /\ \A a \in Actors : WF_vars(CrUpsert(a)) /\ WF_vars(CrRedisSet(a))
    /\ \A t \in Tasks : WF_vars(BgFetch(t))

(* time passes once the clock has reached MaxTime: the timestamps kept in   *)
(* the table and in redis are written relative to the present (the code    *)
(* looks at time.Since(lastUpdated) and at the remaining TTL only).  A row  *)
(* older than MaxTime is as stale as one of age MaxTime, and a key whose    *)
(* TTL ran out stays gone.                                                  *)
Later ==
    /\ now = MaxTime
    /\ pg' = [i \in Ids |->
                IF pg[i] = NoRow THEN NoRow
                ELSE [pg[i] EXCEPT !.last_updated = IF @ > 0 THEN @ - 1 ELSE 0]]
    /\ redis' = [i \in Ids |->
                IF redis[i] = NoEntry THEN NoEntry
                ELSE [redis[i] EXCEPT !.expires = IF @ > 0 THEN @ - 1 ELSE 0]]
    /\ UNCHANGED <<initialized, now, actors, started, subject, concurrent, mwBlank, rl, limits, http, faults, hist>>

(* a caller that asks about one identity again and again, for ever, one     *)
(* call after the other, in an environment that does not fail; the         *)
(* identity has a row in the table                                          *)
InitLoop ==
    /\ initialized = FALSE
    /\ now = 0
    /\ pg = [i \in Ids |-> IF i = IdValid THEN OldRow ELSE NoRow]
    /\ redis = [i \in Ids |-> NoEntry]
    /\ actors = [x \in Actors |-> IdleActor]
    /\ started = 0
    /\ subject = IdValid
    /\ concurrent = FALSE
    /\ faults = MaxFaults
    /\ hist = NoOp
    /\ mwBlank = FALSE
    /\ rl = NoCounter
    /\ limits = [r \in Limiters |-> IdleLimit]
    /\ http = IdleHttp

NextLoop ==
    \/ \E c \in Calls : BeginAgain(c)
    \/ \E c \in Calls : InitPlatform(c)
    \/ \E c \in Calls : Probe(c)
    \/ \E c \in Calls : RedisGet(c)
    \/ \E c \in Calls : PgCount(c)
    \/ \E c \in Calls : PgLast(c)
    \/ \E c \in Calls : PgRow(c)
    \/ \E c \in Calls : Fetch(c)
    \/ \E t \in Tasks : BgFetch(t)
    \/ \E a \in Actors : CrUpsert(a)
    \/ \E a \in Actors : CrRedisSet(a)
    \/ \E c \in Calls : ClrCount(c)
    \/ \E c \in Calls : ClrDelete(c)
    \/ \E c \in Calls : ClrRedis(c)
    \/ Tick
    \/ Later

SpecLoop == InitLoop /\ [][NextLoop]_vars

(* the Go scheduler lets every goroutine that can run make its next step *)
FairSpecLoop ==
    /\ SpecLoop
    /\ \A c \in Calls :
          /\ WF_vars(InitPlatform(c)) /\ WF_vars(Probe(c)) /\ WF_vars(RedisGet(c))
          /\ WF_vars(PgCount(c)) /\ WF_vars(PgLast(c)) /\ WF_vars(PgRow(c))
          /\ WF_vars(Fetch(c))
          /\ WF_vars(ClrCount(c)) /\ WF_vars(ClrDelete(c)) /\ WF_vars(ClrRedis(c))
    /\ \A a \in Actors : WF_vars(CrUpsert(a)) /\ WF_vars(CrRedisSet(a))
    /\ \A t \in Tasks : WF_vars(BgFetch(t))

----------------------------------------------------------------------------
(* uapi: Route.Route's handle and respond *)

UapiFrame == UNCHANGED <<initialized, now, pg, redis, actors, subject, concurrent,
                         mwBlank, rl, limits, faults, hist>>

(* the goroutine of the request has ended, or waits at its send for a       *)
(* receive by a respond that has returned                                   *)
GoroutineBlocked == http.g = "send" /\ http.r = "returned"

(* chi calls handle(w, req): ctx := req.Context(); resp := make(chan        *)
(* HttpResponse); go func() {...}(); respond(ctx, w, resp)                  *)
Handle ==
    /\ http.r \in {"idle", "returned"}
    /\ http.g \in {"idle", "done"} \/ GoroutineBlocked
    /\ started < MaxCalls
    /\ started' = started + 1
    /\ http' = [IdleHttp EXCEPT !.g = "authorize", !.r = "select", !.mw = http.mw,
                                !.blocked = http.blocked
                                            + (IF GoroutineBlocked THEN 1 ELSE 0)]
    /\ UapiFrame

(* the goroutine sends msg: resp <- msg is to come *)
Sends(msg, why) == [http EXCEPT !.g = "send", !.msg = msg, !.why = why]

(* a panic: the deferred function recovers, logs, and sends the 500 *)
Recovers == Sends(PanicResponse, "panic")

(* authData, httpResp, ok := state.Authorize(r, req); if !ok { resp <- httpResp; return } *)
Authorize ==
    /\ http.g = "authorize"
    /\ \E out \in {"ok", "denied", "panic"} :
         http' = IF out = "panic" THEN Recovers
                 ELSE IF out = "denied" THEN Sends(DeniedResponse, "denied")
                 ELSE [http EXCEPT !.authOk = TRUE,
                                   !.g = IF http.mw THEN "middleware" ELSE "handler"]
    /\ UNCHANGED started
    /\ UapiFrame

(* rd, err = state.RouteDataMiddleware(rd, req); if err != nil { resp <- 500; return } *)
RouteDataMiddleware ==
    /\ http.g = "middleware"
    /\ \E out \in {"ok", "err", "panic"} :
         http' = IF out = "panic" THEN Recovers
                 ELSE IF out = "err" THEN Sends(MiddlewareErrorResponse, "middleware")
                 ELSE [http EXCEPT !.mwOk = TRUE, !.g = "handler"]
    /\ UNCHANGED started
    /\ UapiFrame

(* resp <- r.Handler(rd, req): the Handler runs and returns or panics *)
Handler ==
    /\ http.g = "handler"
    /\ \/ \E resp \in HandlerResponses :
            http' = [Sends(resp, "handler") EXCEPT !.invoked = @ + 1, !.answer = resp]
       \/ http' = [Recovers EXCEPT !.invoked = @ + 1]
    /\ UNCHANGED started
    /\ UapiFrame

(* respond: case msg, ok := <-data meets the goroutine's resp <- msg (the   *)
(* channel has no buffer); respond writes the response and returns, the     *)
(* goroutine ends                                                           *)
Respond ==
    /\ http.r = "select"
    /\ http.g = "send"
    /\ LET out == RespondWrites(http.msg)
       IN  http' = [http EXCEPT !.r = "returned", !.g = "done", !.sent = @ + 1,
                                !.calls = out.calls, !.headers = out.headers,
                                !.caches = out.caches]
    /\ UNCHANGED started
    /\ UapiFrame

(* respond: case <-ctx.Done(): return *)
RespondCtxDone ==
    /\ http.r = "select"
    /\ http.ctxDone
    /\ http' = [http EXCEPT !.r = "returned"]
    /\ UNCHANGED started
    /\ UapiFrame

(* the client goes away (or the server shuts down) while the request is     *)
(* being served: req.Context() is cancelled                                 *)
CancelRequest ==
    /\ http.r = "select"
    /\ ~http.ctxDone
    /\ http' = [http EXCEPT !.ctxDone = TRUE]
    /\ UNCHANGED started
    /\ UapiFrame

(* a Route registered with or without state.RouteDataMiddleware *)
InitApi ==
    /\ initialized = FALSE
    /\ now = 0
    /\ pg = [i \in Ids |-> NoRow]
    /\ redis = [i \in Ids |-> NoEntry]
    /\ actors = [x \in Actors |-> IdleActor]
    /\ started = 0
    /\ subject = IdValid
    /\ concurrent = FALSE
    /\ faults = 0
    /\ hist = NoOp
    /\ mwBlank = FALSE
    /\ rl = NoCounter
    /\ limits = [r \in Limiters |-> IdleLimit]
    /\ http \in {[IdleHttp EXCEPT !.mw = b] : b \in BOOLEAN}

NextApi ==
    \/ Handle
    \/ Authorize
    \/ RouteDataMiddleware
    \/ Handler
    \/ Respond
    \/ RespondCtxDone
    \/ CancelRequest

SpecApi == InitApi /\ [][NextApi]_vars

----------------------------------------------------------------------------
(* Properties *)

Done(a) == actors[a].pc = "done"
IsGet(a) == actors[a].kind = "get"
HasEv(r, op, res) == \E i \in 1..Len(r.acc) : r.acc[i] = <<op, res>>
Did(r, op) == \E i \in 1..Len(r.acc) : r.acc[i][1] = op
CountEv(r, op) == Cardinality({i \in 1..Len(r.acc) : r.acc[i][1] = op})

(* the fields of a PlatformUser other than extra_data *)
Core(u) == [u EXCEPT !.ExtraData = {}]
(* the columns of the table as a PlatformUser carries them *)
Columns(u) == [username |-> u.Username, display_name |-> u.DisplayName,
               avatar |-> u.Avatar, bot |-> u.Bot]
RowColumns(row) == [username |-> row.username, display_name |-> row.display_name,
                    avatar |-> row.avatar, bot |-> row.bot]

(* C1: for every identity that fails ValidateId, GetUser returns an error   *)
(* and makes no access at all: no live-state probe, no fast-cache read or   *)
(* write, no query or upsert of the table, no remote fetch.                 *)
C1_InvalidIdTouchesNothing ==
    \A c \in Calls :
        (IsGet(c) /\ ~ValidateId(actors[c].id)) =>
            /\ actors[c].acc = <<>>
            /\ actors[c].spawned = 0
            /\ Done(c) => actors[c].err # ""

(* the accesses of a GetUser call come in the order probe, fast cache,      *)
(* table, remote fetch, each only after the one before it missed            *)
MissOrErr(e, op) == e \in {<<op, "miss">>, <<op, "err">>}
TierOrder(acc) ==
    \A i \in 1..Len(acc) :
        /\ acc[i][1] = "probe" => i = 1
        /\ acc[i][1] = "redis_get" => i = 2 /\ acc[1] = <<"probe", "absent">>
        /\ acc[i][1] = "pg_count" => i = 3 /\ MissOrErr(acc[2], "redis_get")
        /\ acc[i][1] = "pg_last" => i = 4 /\ acc[3] = <<"pg_count", "hit">>
        /\ acc[i][1] = "pg_row" => i = 5 /\ acc[4][1] = "pg_last" /\ acc[4][2] # "err"

(* a remote fetch made after live state, fast cache and table all missed *)
FetchAfterAllMissed(acc, i) ==
    /\ i = 4
    /\ acc[1] = <<"probe", "absent">>
    /\ MissOrErr(acc[2], "redis_get")
    /\ MissOrErr(acc[3], "pg_count")

(* the tier that answered made the result *)
AnsweredBy(r) ==
    /\ HasEv(r, "probe", "hit") <=> r.via = "live"
    /\ HasEv(r, "redis_get", "hit") <=> r.via = "redis"
    /\ HasEv(r, "pg_row", "ok") <=> r.via = "pg"
    /\ HasEv(r, "fetch", "ok") <=> r.via = "fetch"
    /\ (r.pc = "done" /\ r.err = "") =>
          /\ r.via # ""
          /\ r.via = "redis" => r.ret.ExtraData = {<<"cache", "redis">>}
          /\ r.via # "redis" => r.ret.ExtraData = r.got.ExtraData /\ Columns(r.ret) = Columns(DefaultDisplayName(r.got))

(* C2 as stated: GetUser consults the tiers in the strict order live-state  *)
(* probe, fast cache, table, remote fetch, the first tier that hits makes   *)
(* the result, and the remote fetch is called only when live state, fast    *)
(* cache and table all missed (whoever calls it: the call itself or the     *)
(* goroutine it launched).                                                  *)
C2_FetchOnlyAfterAllMissed ==
    \A a \in Actors :
        actors[a].kind \in {"get", "bg"} =>
            /\ TierOrder(actors[a].acc)
            /\ \A i \in 1..Len(actors[a].acc) :
                  actors[a].acc[i][1] = "fetch" => FetchAfterAllMissed(actors[a].acc, i)

(* C2 amended: the order holds for the accesses of the call itself, the     *)
(* first tier that hits makes the result, the call's own remote fetch is    *)
(* made only when all three missed; the only other remote fetch is the      *)
(* one of the background goroutine, made after a stale hit in the table.    *)
C2_TierOrder ==
    /\ \A c \in Calls :
          IsGet(c) =>
              /\ TierOrder(actors[c].acc)
              /\ AnsweredBy(actors[c])
              /\ \A i \in 1..Len(actors[c].acc) :
                    actors[c].acc[i][1] = "fetch" => FetchAfterAllMissed(actors[c].acc, i)
    /\ \A t \in Tasks :
          actors[t].kind = "bg" =>
              /\ TierOrder(actors[t].acc)
              /\ \A i \in 1..Len(actors[t].acc) :
                    actors[t].acc[i][1] = "fetch" =>
                        i = 5 /\ actors[t].acc[4] = <<"pg_last", "stale">>

C2_Witness ==
    \E c \in Calls :
        /\ IsGet(c) /\ Done(c) /\ actors[c].err = ""
        /\ actors[c].via = "fetch"
        /\ HasEv(actors[c], "pg_count", "miss")


(* C3: with the live-state probe absent and an unexpired fast-cache entry   *)
(* (which the read returns), a GetUser that immediately follows a           *)
(* successful GetUser for the same identity is answered from the fast       *)
(* cache alone: no remote fetch, no access to the table.                    *)
C3_SecondCallFromFastCache ==
    \A c \in Calls :
        ( /\ IsGet(c) /\ Done(c)
          /\ actors[c].pred.kind = "get" /\ actors[c].pred.ok
          /\ HasEv(actors[c], "probe", "absent")
          /\ actors[c].sawLive
          /\ ~HasEv(actors[c], "redis_get", "err") )
        => /\ actors[c].acc = << <<"probe", "absent">>, <<"redis_get", "hit">> >>
           /\ actors[c].err = ""
           /\ actors[c].via = "redis"
           /\ actors[c].spawned = 0

C3_Witness ==
    \E c \in Calls :
        /\ IsGet(c) /\ Done(c)
        /\ actors[c].pred.kind = "get" /\ actors[c].pred.ok
        /\ actors[c].pred.via = "fetch"
        /\ actors[c].via = "redis"

(* a successful GetUser that immediately follows a GetUser answered by the  *)
(* remote fetch, no background goroutine running in between                 *)
FollowsFresh(r) ==
    /\ r.kind = "get" /\ r.pc = "done" /\ r.err = ""
    /\ r.pred.kind = "get" /\ r.pred.ok /\ r.pred.via = "fetch"
    /\ ~r.pred.noise /\ ~r.noise

(* C4 as stated: the PlatformUser returned by a GetUser that immediately    *)
(* follows a fresh GetUser is identical to the one the first call returned, *)
(* field for field, extra_data and status included.                         *)
C4_SecondCallIdentical ==
    \A c \in Calls :
        FollowsFresh(actors[c]) => actors[c].ret = actors[c].pred.ret

(* C4 amended: when the first call wrote the fast-cache entry and the       *)
(* second is answered from it, the two users agree in every field but       *)
(* extra_data, which is {"cache": "redis"} in the second.                   *)
C4_SecondCallSameButExtraData ==
    \A c \in Calls :
        (FollowsFresh(actors[c]) /\ actors[c].pred.wrote /\ actors[c].via = "redis")
        => /\ Core(actors[c].ret) = Core(actors[c].pred.ret)
           /\ actors[c].ret.ExtraData = {<<"cache", "redis">>}

C4_Witness ==
    \E c \in Calls :
        /\ FollowsFresh(actors[c]) /\ actors[c].pred.wrote /\ actors[c].via = "redis"
        /\ actors[c].ret.Flags = Middlewares
        /\ actors[c].pred.ret.ExtraData = {}

(* a GetUser (probe absent) that is the next call after a successful        *)
(* ClearUser of both tiers on an identity that was cached in both           *)
NextAfterClearBoth(r) ==
    /\ r.kind = "get" /\ r.pc = "done"
    /\ r.pred.kind = "clear" /\ r.pred.ok /\ r.pred.both
    /\ HasEv(r, "probe", "absent")

(* C5 as stated: after ClearUser from both tiers of an identity cached in   *)
(* both, the next GetUser triggers exactly one remote fetch, also when a    *)
(* background refresh was in flight when ClearUser ran.                     *)
C5_OneFetchAfterClear ==
    \A c \in Calls :
        NextAfterClearBoth(actors[c]) => CountEv(actors[c], "fetch") = 1

(* C5 amended: the same, provided no background refresh of the identity     *)
(* makes a step between the beginning of ClearUser and the end of GetUser.  *)
C5_OneFetchAfterQuietClear ==
    \A c \in Calls :
        (NextAfterClearBoth(actors[c]) /\ ~actors[c].pred.noise /\ ~actors[c].noise)
        => /\ CountEv(actors[c], "fetch") = 1
           /\ actors[c].spawned = 0

C5_Witness ==
    \E c \in Calls :
        /\ NextAfterClearBoth(actors[c]) /\ ~actors[c].pred.noise /\ ~actors[c].noise
        /\ actors[c].via = "fetch" /\ actors[c].err = ""

(* C6: on a stale hit GetUser returns the row's data whatever the           *)
(* background goroutine does, and a failed background fetch ends the        *)
(* goroutine: nothing is surfaced, neither tier is written.                 *)
C6_FailedRefreshIsSilent ==
    /\ \A t \in Tasks :
          (actors[t].kind = "bg" /\ HasEv(actors[t], "fetch", "err"))
          => /\ Done(t)
             /\ actors[t].acc[Len(actors[t].acc)] = <<"fetch", "err">>
             /\ ~Did(actors[t], "upsert") /\ ~Did(actors[t], "redis_set")
    /\ \A c \in Calls :
          (IsGet(c) /\ Done(c) /\ HasEv(actors[c], "pg_last", "stale") /\ actors[c].err = "")
          => /\ actors[c].via = "pg"
             /\ actors[c].got.ExtraData = {<<"cache", "pg">>}
             /\ Columns(actors[c].ret) = Columns(actors[c].got)

C6_Witness ==
    \E c \in Calls, t \in Tasks :
        /\ IsGet(c) /\ Done(c) /\ actors[c].err = ""
        /\ HasEv(actors[c], "pg_last", "stale")
        /\ actors[c].task = t /\ actors[t].parent = c
        /\ HasEv(actors[t], "fetch", "err") /\ Done(t)

(* C7: after a stale hit whose background fetch succeeds, once the call     *)
(* and the goroutine have both ended (nothing failed, nothing else ran),    *)
(* the row and the fast-cache entry hold what the remote fetch returned.    *)
C7_RefreshWins ==
    \A c \in Calls, t \in Tasks :
        ( /\ IsGet(c) /\ Done(c) /\ actors[c].err = ""
          /\ actors[c].task = t /\ actors[t].parent = c
          /\ actors[t].kind = "bg" /\ Done(t) /\ actors[t].err = ""
          /\ faults = 0 )
        => LET id == actors[c].id
               fetched == Columns(DefaultDisplayName(actors[t].got))
           IN  /\ pg[id] # NoRow
               /\ RowColumns(pg[id]) = fetched
               /\ redis[id] # NoEntry
               /\ Columns(Unmarshal(redis[id].bytes)) = fetched

(* C8: a GetUser launches exactly one background refresh when it hits a     *)
(* stale row, and none in every other case.                                 *)
C8_OneRefreshIffStale ==
    \A c \in Calls :
        /\ actors[c].spawned =
              IF IsGet(c) /\ HasEv(actors[c], "pg_last", "stale") THEN 1 ELSE 0
        /\ actors[c].spawned = 1 <=> actors[c].task # "none"
        /\ actors[c].task # "none"
              => actors[actors[c].task].kind = "bg" /\ actors[actors[c].task].parent = c

C8_Witness ==
    \E c \in Calls :
        /\ IsGet(c) /\ Done(c)
        /\ HasEv(actors[c], "pg_last", "stale")
        /\ actors[c].spawned = 1

(* C9 as stated: a row is fresh exactly when its age is strictly less than  *)
(* the expiry window and stale when its age is greater than or equal to     *)
(* it; a row whose age equals the window triggers the refresh.              *)
C9_StaleFromWindowOn ==
    \A c \in Calls :
        (IsGet(c) /\ actors[c].age # -1) =>
            /\ HasEv(actors[c], "pg_last", "fresh") <=> actors[c].age < UserExpiryTime
            /\ HasEv(actors[c], "pg_last", "stale") <=> actors[c].age >= UserExpiryTime
            /\ actors[c].age = UserExpiryTime => actors[c].spawned = 1

(* C9 amended: a row is fresh exactly when its age is at most the window    *)
(* and stale when its age is strictly greater; a row whose age equals the   *)
(* window triggers no refresh.                                              *)
C9_StaleBeyondWindow ==
    \A c \in Calls :
        (IsGet(c) /\ actors[c].age # -1) =>
            /\ HasEv(actors[c], "pg_last", "fresh") <=> actors[c].age <= UserExpiryTime
            /\ HasEv(actors[c], "pg_last", "stale") <=> actors[c].age > UserExpiryTime
            /\ actors[c].spawned = 1 <=> actors[c].age > UserExpiryTime

C9_Witness ==
    \E c \in Calls :
        /\ IsGet(c) /\ Done(c)
        /\ actors[c].age = UserExpiryTime
        /\ HasEv(actors[c], "pg_last", "fresh")
        /\ actors[c].spawned = 0

(* C10: when a middleware returns an error during persist-through, no       *)
(* later middleware is invoked, the row is not upserted and the fast-cache  *)
(* entry is not written: the failed middleware is the last thing done.      *)
C10_MiddlewareErrorStops ==
    \A a \in Actors :
        \A i \in 1..Len(actors[a].acc) :
            (\E m \in 1..Len(Middlewares) : actors[a].acc[i] = <<Middlewares[m], "err">>)
            => /\ i = Len(actors[a].acc)
               /\ Done(a)
               /\ actors[a].err = "middleware failed"

C10_Witness ==
    \E a \in Actors :
        /\ Done(a)
        /\ HasEv(actors[a], Middlewares[1], "err")
        /\ ~Did(actors[a], Middlewares[2])

(* a GetUser call that has returned after one of its middlewares failed *)
MwFailed(r) ==
    /\ r.kind = "get" /\ r.pc = "done"
    /\ \E m \in 1..Len(Middlewares) : HasEv(r, Middlewares[m], "err")

C12_FetchedMeansSuccess ==
    \A c \in Calls :
        ( /\ IsGet(c) /\ Done(c)
          /\ HasEv(actors[c], "fetch", "ok")
          /\ ~MwFailed(actors[c]) )
        => /\ actors[c].err = ""
           /\ actors[c].ret # NoUser

(* C13: when the existence query or the last_updated query of the table     *)
(* returns an error, GetUser does not return that error: its next access    *)
(* is the remote fetch.                                                     *)
C13_PgErrorsGoToFetch ==
    \A c \in Calls :
        IsGet(c) =>
            \A i \in 1..Len(actors[c].acc) :
                actors[c].acc[i] \in {<<"pg_count", "err">>, <<"pg_last", "err">>}
                => /\ actors[c].err # "pg"
                   /\ actors[c].pc \in {"fetch", "cr_upsert", "cr_set", "done"}
                   /\ Len(actors[c].acc) > i => actors[c].acc[i + 1][1] = "fetch"

(* a GetUser answered from the fast cache has made the probe and the read   *)
(* of the fast cache and nothing else, and has returned                     *)
HitIsReadOnly(r) ==
    /\ r.pc = "done" /\ r.err = ""
    /\ r.acc = << <<"probe", "absent">>, <<"redis_get", "hit">> >>
    /\ r.spawned = 0 /\ r.task = "none"

(* C14: a fast-cache hit is read-only: a GetUser answered from the fast     *)
(* cache makes no upsert (the table, last_updated included, is as it was),  *)
(* no fast-cache write, no middleware invocation and no remote fetch.       *)
C14_FastCacheHitReadOnly ==
    /\ [](\A c \in Calls : (IsGet(c) /\ actors[c].via = "redis") => HitIsReadOnly(actors[c]))
    /\ [][\A c \in Calls :
             (actors[c].pc = "redis_get" /\ actors'[c].via = "redis")
             => (pg' = pg /\ redis' = redis)]_vars

C14_Witness ==
    \E c \in Calls :
        /\ IsGet(c) /\ Done(c) /\ actors[c].via = "redis"
        /\ pg[actors[c].id] # NoRow
        /\ pg[actors[c].id].last_updated < now

(* C15: every GetUser that returns successfully and is not a fast-cache     *)
(* hit (live-state hit, fresh or stale table hit, remote fetch) makes       *)
(* itself exactly one upsert and exactly one fast-cache write.              *)
C15_OneUpsertOneSet ==
    \A c \in Calls :
        (IsGet(c) /\ Done(c) /\ actors[c].err = "" /\ actors[c].via # "redis")
        => /\ actors[c].via \in {"live", "pg", "fetch"}
           /\ CountEv(actors[c], "upsert") = 1
           /\ HasEv(actors[c], "upsert", "ok")
           /\ CountEv(actors[c], "redis_set") = 1

C15_Witness ==
    \E c \in Calls :
        /\ IsGet(c) /\ Done(c) /\ actors[c].err = ""
        /\ actors[c].via = "pg" /\ actors[c].spawned = 1
        /\ CountEv(actors[c], "upsert") = 1
        /\ HasEv(actors[c], "redis_set", "ok")

(* the steps of persist-through in acc: the middlewares in a row, then the  *)
(* upsert, then the fast-cache write, each only after the one before it     *)
(* succeeded                                                                *)
PersistOrder(acc) ==
    \A i \in 1..Len(acc) :
        /\ acc[i][1] = "upsert" =>
              /\ i > Len(Middlewares)
              /\ \A m \in 1..Len(Middlewares) :
                    acc[i - Len(Middlewares) + m - 1] = <<Middlewares[m], "ok">>
        /\ acc[i][1] = "redis_set" => i > 1 /\ acc[i - 1] = <<"upsert", "ok">>
        /\ (\E m \in 1..Len(Middlewares) : acc[i][1] = Middlewares[m]) =>
              \A j \in 1..(i - 1) : acc[j][1] \notin {"upsert", "redis_set"}

(* C16: persist-through runs the middlewares, then the upsert, then the     *)
(* fast-cache write; an entry is written to the fast cache only by a        *)
(* cachedReturn whose upsert succeeded, and it expires UserExpiryTime       *)
(* after the write.                                                         *)
C16_PersistOrderAndTtl ==
    /\ [](\A a \in Actors : PersistOrder(actors[a].acc))
    /\ [][\A id \in Ids :
             (redis'[id] # redis[id] /\ redis'[id] # NoEntry)
             => /\ redis'[id].expires = now + UserExpiryTime
                /\ \E a \in Actors :
                      /\ actors[a].pc = "cr_set" /\ actors[a].id = id
                      /\ actors[a].acc[Len(actors[a].acc)] = <<"upsert", "ok">>
                      /\ actors'[a].pc = "done"]_vars

C16_Witness ==
    \E a \in Actors :
        /\ Done(a)
        /\ Len(actors[a].acc) > 0
        /\ actors[a].acc[Len(actors[a].acc)] = <<"redis_set", "ok">>
        /\ redis[actors[a].id] # NoEntry
        /\ redis[actors[a].id].expires = now + UserExpiryTime

(* u is what the tier gave (got) after the display-name default and the    *)
(* middlewares, each applied to the output of the one before it, in         *)
(* registration order: the tags they leave are in that order                *)
Chained(u, got) ==
    /\ u # NoUser /\ got # NoUser
    /\ u = [DefaultDisplayName(got) EXCEPT !.Flags = got.Flags \o Middlewares]

(* C17: the middlewares are applied in registration order and chained, and  *)
(* the record that is upserted, written to the fast cache and returned is   *)
(* the output of the last middleware.                                       *)
C17_MiddlewaresChained ==
    /\ [](\A a \in Actors :
             /\ actors[a].pc \in {"cr_upsert", "cr_set"} => Chained(actors[a].u, actors[a].got)
             /\ (actors[a].kind = "get" /\ Done(a) /\ actors[a].err = ""
                    /\ actors[a].via # "redis")
                => Chained(actors[a].ret, actors[a].got))
    /\ [][\A a \in Actors :
             /\ (actors[a].pc = "cr_upsert" /\ actors'[a].pc = "cr_set")
                => RowColumns(pg'[actors[a].id]) = Columns(actors[a].u)
             /\ (actors[a].pc = "cr_set" /\ HasEv(actors'[a], "redis_set", "ok"))
                => /\ redis'[actors[a].id].bytes = Marshal(actors[a].u)
                   /\ actors'[a].ret = actors[a].u]_vars

C17_Witness ==
    \E c \in Calls :
        /\ IsGet(c) /\ Done(c) /\ actors[c].err = "" /\ actors[c].via = "fetch"
        /\ actors[c].ret.Flags = Middlewares
        /\ actors[c].got.DisplayName = "" /\ actors[c].ret.DisplayName = actors[c].ret.Username
        /\ redis[actors[c].id] # NoEntry
        /\ redis[actors[c].id].bytes = Marshal(actors[c].ret)
        /\ pg[actors[c].id] # NoRow
        /\ RowColumns(pg[actors[c].id]) = Columns(actors[c].ret)

(* C18: a failure of the fast-cache write during persist-through is not     *)
(* fatal: GetUser returns the resolved user without error, and the row      *)
(* upserted just before stays in the table.                                 *)
C18_RedisSetFailureNotFatal ==
    /\ [](\A c \in Calls :
             (IsGet(c) /\ HasEv(actors[c], "redis_set", "err"))
             => /\ Done(c) /\ actors[c].err = ""
                /\ Chained(actors[c].ret, actors[c].got)
                /\ HasEv(actors[c], "upsert", "ok"))
    /\ [][\A c \in Calls :
             (IsGet(c) /\ actors[c].pc = "cr_set" /\ HasEv(actors'[c], "redis_set", "err"))
             => /\ pg' = pg /\ redis' = redis
                /\ pg[actors[c].id] # NoRow
                /\ actors'[c].ret = actors[c].u]_vars

C18_Witness ==
    \E c \in Calls :
        /\ IsGet(c) /\ Done(c) /\ actors[c].err = ""
        /\ HasEv(actors[c], "redis_set", "err")
        /\ actors[c].ret # NoUser
        /\ redis[actors[c].id] = NoEntry
        /\ pg[actors[c].id] # NoRow
        /\ RowColumns(pg[actors[c].id]) = Columns(actors[c].ret)

(* C19: an error of the live-state probe aborts GetUser: the call returns   *)
(* an error and no user, the error is not taken for 'absent', and neither   *)
(* the fast cache, the table nor the remote fetch is accessed.              *)
C19_ProbeErrorAborts ==
    \A c \in Calls :
        (IsGet(c) /\ HasEv(actors[c], "probe", "err"))
        => /\ Done(c)
           /\ actors[c].err = "platformSpecificCache failed"
           /\ actors[c].ret = NoUser
           /\ actors[c].acc = << <<"probe", "err">> >>
           /\ actors[c].spawned = 0

C19_Witness ==
    \E c \in Calls :
        /\ IsGet(c) /\ Done(c)
        /\ HasEv(actors[c], "probe", "err")
        /\ actors[c].err # ""

(* C20: when the live-state probe returns a user, GetUser reads neither     *)
(* the fast cache nor the table and makes no remote fetch; it writes the    *)
(* user through the table and the fast cache and returns it.                *)
C20_LiveHitWritesThrough ==
    \A c \in Calls :
        (IsGet(c) /\ HasEv(actors[c], "probe", "hit"))
        => /\ actors[c].via = "live"
           /\ actors[c].got = LiveUser(actors[c].id)
           /\ \A op \in {"redis_get", "pg_count", "pg_last", "pg_row", "fetch"} :
                 ~Did(actors[c], op)
           /\ actors[c].spawned = 0
           /\ (Done(c) /\ actors[c].err = "")
              => /\ HasEv(actors[c], "upsert", "ok")
                 /\ Did(actors[c], "redis_set")
                 /\ Columns(actors[c].ret) = Columns(DefaultDisplayName(LiveUser(actors[c].id)))
                 /\ actors[c].ret.Status = PlatformStatusOnline
                 /\ actors[c].ret.ExtraData = LiveUser(actors[c].id).ExtraData

C20_Witness ==
    \E c \in Calls :
        /\ IsGet(c) /\ Done(c) /\ actors[c].err = "" /\ actors[c].via = "live"
        /\ HasEv(actors[c], "redis_set", "ok")
        /\ redis[actors[c].id] # NoEntry
        /\ redis[actors[c].id].bytes = Marshal(actors[c].ret)
        /\ pg[actors[c].id] # NoRow
        /\ RowColumns(pg[actors[c].id]) = Columns(actors[c].ret)

(* C21: when every tier misses and the remote fetch fails, GetUser returns  *)
(* an error wrapping the adapter's, with no further fallback: the failed    *)
(* fetch is its last access, no user is returned, and the table and the     *)
(* fast cache are left as they were.                                        *)
C21_FetchFailureIsFinal ==
    /\ [](\A c \in Calls :
             (IsGet(c) /\ HasEv(actors[c], "fetch", "err"))
             => /\ Done(c)
                /\ actors[c].err = "failed to get user from platform"
                /\ actors[c].ret = NoUser
                /\ Len(actors[c].acc) = 4
                /\ FetchAfterAllMissed(actors[c].acc, 4)
                /\ actors[c].acc[4] = <<"fetch", "err">>
                /\ actors[c].spawned = 0)
    /\ [][\A c \in Calls :
             (actors[c].pc = "fetch" /\ HasEv(actors'[c], "fetch", "err"))
             => (pg' = pg /\ redis' = redis)]_vars

C21_Witness ==
    \E c \in Calls :
        /\ IsGet(c) /\ Done(c)
        /\ HasEv(actors[c], "fetch", "err")
        /\ HasEv(actors[c], "pg_count", "miss")
        /\ actors[c].err # ""
        /\ pg[actors[c].id] = NoRow /\ redis[actors[c].id] = NoEntry

(* a call that has ended on a failed initialisation *)
InitFailed(r) == r.pc = "done" /\ r.err \in InitErrors

(* C22: GetUser and ClearUser initialise the adapter exactly when           *)
(* Initted() is false on entry (an initialised adapter is never             *)
(* initialised again); when the initialisation returns an error or leaves   *)
(* Initted() false, they return an error and have neither read nor          *)
(* written a cache entry nor called the probe or the fetch.                 *)
C22_InitOnEntryOnly ==
    /\ [](\A c \in Calls :
             /\ actors[c].pc = "init_platform" => ~initialized
             /\ (Active(c) /\ actors[c].pc # "init_platform") => initialized
             /\ (actors[c].acc # <<>> \/ actors[c].cleared # <<>>) => initialized
             /\ InitFailed(actors[c])
                => /\ actors[c].acc = <<>> /\ actors[c].cleared = <<>>
                   /\ actors[c].ret = NoUser
                   /\ actors[c].spawned = 0 /\ actors[c].inits = 0)
    /\ [][/\ initialized => initialized'
           /\ \A c \in Calls :
                /\ (~Active(c) /\ Active(c)')
                   => (actors'[c].pc = "init_platform" <=> ~initialized)
                /\ (actors[c].pc = "init_platform" /\ actors'[c].pc # "init_platform")
                   => /\ pg' = pg /\ redis' = redis
                      /\ InitFailed(actors'[c]) <=> ~initialized'
                      /\ actors'[c].inits = 1 <=> initialized']_vars

C22_Witness ==
    \E c \in Calls :
        /\ actors[c].kind = "clear"
        /\ actors[c].pc = "done"
        /\ actors[c].err = "platform init() did not set initted() to true"
        /\ ~initialized
        /\ hist.kind = "clear" /\ ~hist.ok

(* C23: initialisation is one-time: over every interleaving of concurrent   *)
(* GetUser and ClearUser calls on an adapter that is not yet initialised,   *)
(* InitPlatform / Init runs at most once.                                   *)
C23_InitAtMostOnce ==
    Cardinality({c \in Calls : actors[c].inits > 0}) <= 1

(* a ClearUser that has returned without error, with no other call and no  *)
(* background goroutine at work on the identity meanwhile                   *)
ClearedAlone(r) ==
    /\ r.kind = "clear" /\ r.pc = "done" /\ r.err = ""
    /\ r.calm /\ ~r.noise

(* tier is in the selection req of a ClearUser: it is named, or none is *)
Selected(req, tier) == req = <<>> \/ \E i \in 1..Len(req) : req[i] = tier

(* C24: ClearUser reports in ClearedFrom exactly the selected tiers that    *)
(* held an entry for the identity before the call: a selected tier with no  *)
(* entry is not reported (ClearUser of the fast cache alone on an identity  *)
(* that is only in the table reports nothing, without error).               *)
C24_ClearedFromExact ==
    \A c \in Calls :
        ClearedAlone(actors[c]) =>
            /\ Contains(actors[c].cleared, ClearFromInternalUserCache)
                  <=> (Selected(actors[c].req, ClearFromInternalUserCache) /\ actors[c].hadRow)
            /\ Contains(actors[c].cleared, ClearFromRedis)
                  <=> (Selected(actors[c].req, ClearFromRedis) /\ actors[c].hadEntry)

(* C25: ClearUser with an empty selection acts on both tiers, and when      *)
(* ClearUser returns without error (nothing else at work on the identity)   *)
(* no selected tier holds an entry for the identity any more.               *)
C25_SelectedTiersEmptied ==
    /\ [](\A c \in Calls :
             (actors[c].kind = "clear" /\ Done(c) /\ actors[c].err = "")
             => /\ Selected(actors[c].req, ClearFromInternalUserCache)
                   => Did(actors[c], "pg_count")
                /\ Selected(actors[c].req, ClearFromRedis)
                   => HasEv(actors[c], "redis_del", "ok"))
    /\ [][\A c \in Calls :
             (Active(c) /\ ClearedAlone(actors'[c]))
             => /\ Selected(actors[c].req, ClearFromInternalUserCache)
                   => pg'[actors[c].id] = NoRow
                /\ Selected(actors[c].req, ClearFromRedis)
                   => redis'[actors[c].id] = NoEntry]_vars

C25_Witness ==
    \E c \in Calls :
        /\ ClearedAlone(actors[c])
        /\ actors[c].req = <<>>
        /\ actors[c].hadRow /\ actors[c].hadEntry
        /\ pg[actors[c].id] = NoRow /\ redis[actors[c].id] = NoEntry

(* C26: ClearUser leaves every tier it was not told to clear as it was:     *)
(* with the table alone selected the redis key is neither read nor          *)
(* deleted, with redis alone selected the table is neither queried nor      *)
(* changed, and the entries of other identities are never touched.          *)
C26_UnselectedTiersUntouched ==
    /\ [](\A c \in Calls :
             actors[c].kind = "clear" =>
                /\ ~Selected(actors[c].req, ClearFromInternalUserCache)
                   => ~Did(actors[c], "pg_count") /\ ~Did(actors[c], "pg_delete")
                /\ ~Selected(actors[c].req, ClearFromRedis)
                   => ~Did(actors[c], "redis_del"))
    /\ [][\A c \in Calls :
             (actors[c].kind = "clear" /\ Active(c) /\ actors'[c] # actors[c])
             => /\ ~Selected(actors[c].req, ClearFromInternalUserCache) => pg' = pg
                /\ ~Selected(actors[c].req, ClearFromRedis) => redis' = redis
                /\ \A i \in Ids \ {actors[c].id} :
                      pg'[i] = pg[i] /\ redis'[i] = redis[i]]_vars

C26_Witness ==
    \E c \in Calls :
        /\ ClearedAlone(actors[c])
        /\ actors[c].req = <<ClearFromInternalUserCache>>
        /\ actors[c].hadRow /\ actors[c].hadEntry
        /\ actors[c].cleared = <<ClearFromInternalUserCache>>
        /\ pg[actors[c].id] = NoRow
        /\ redis[actors[c].id] # NoEntry

(* C27: every PlatformUser returned by a successful GetUser has a          *)
(* non-empty display_name, whichever tier answered and whatever the         *)
(* middlewares returned; when the resolved record has no display_name, the  *)
(* one returned equals the username.                                        *)
C27_DisplayNameNeverEmpty ==
    \A c \in Calls :
        (IsGet(c) /\ Done(c) /\ actors[c].err = "")
        => /\ actors[c].ret.DisplayName # ""
           /\ (actors[c].via # "redis" /\ actors[c].got.DisplayName = "")
              => actors[c].ret.DisplayName = actors[c].ret.Username

(* a GetUser that found the row stale *)
SawStale(c) == IsGet(c) /\ HasEv(actors[c], "pg_last", "stale")

(* the goroutine of call c: launched by it, with its own remote fetch *)
OwnRefresh(c) ==
    /\ actors[c].spawned = 1
    /\ actors[c].task \in Tasks
    /\ actors[actors[c].task].kind = "bg"
    /\ actors[actors[c].task].parent = c
    /\ CountEv(actors[actors[c].task], "fetch") <= 1

(* C28: two concurrent GetUser calls that both find the row stale each      *)
(* launch their own background refresh (two goroutines, two remote          *)
(* fetches, no de-duplication); every refresh launched ends in a failed     *)
(* fetch or in its upsert of the row, and an upsert leaves in the row the   *)
(* values of the one that made it, so that the last writer determines them. *)
C28_OneRefreshPerStaleCall ==
    /\ [](\A c \in Calls : SawStale(c) => OwnRefresh(c))
    /\ []((SawStale("c1") /\ SawStale("c2")) => actors["c1"].task # actors["c2"].task)
    /\ [][\A a \in Actors :
             (actors[a].pc = "cr_upsert" /\ actors'[a].pc = "cr_set")
             => /\ RowColumns(pg'[actors[a].id]) = Columns(actors[a].u)
                /\ pg'[actors[a].id].last_updated = now]_vars
    /\ \A t \in Tasks :
          (actors[t].pc = "bg_fetch")
             ~> (HasEv(actors[t], "fetch", "err") \/ HasEv(actors[t], "upsert", "ok"))

C28_Witness ==
    /\ SawStale("c1") /\ SawStale("c2")
    /\ \A t \in Tasks :
          /\ actors[t].kind = "bg" /\ Done(t)
          /\ HasEv(actors[t], "fetch", "ok") /\ HasEv(actors[t], "upsert", "ok")
    /\ actors["t1"].parent # actors["t2"].parent

(* C29: the background refresh is not bound to the ctx of the call that     *)
(* launched it: when that ctx is cancelled after GetUser has returned (and  *)
(* nothing else fails), the goroutine still makes its remote fetch and      *)
(* persists the result.                                                     *)
C29_RefreshSurvivesCancel ==
    \A t \in Tasks :
        (actors[t].kind = "bg" /\ actors[t].ctxDone /\ Done(t) /\ faults = 0)
        => /\ HasEv(actors[t], "fetch", "ok")
           /\ HasEv(actors[t], "upsert", "ok")
           /\ Did(actors[t], "redis_set")

(* C30: for one bucket and identifier, among the Limit calls made one       *)
(* after another within one expiry window (the life of the counter key) at  *)
(* most MaxRequests are reported with Exceeded = false, and the             *)
(* (MaxRequests+1)-th call of the window is reported as exceeded.           *)
C30_AtMostMaxRequestsPass ==
    /\ rl # NoCounter => rl.passed <= MaxRequests
    /\ \A r \in Limiters :
          (limits[r].pc = "done" /\ limits[r].err = "" /\ limits[r].nth = MaxRequests + 1)
          => limits[r].out.Exceeded

(* C31: the Limit value returned without error has Remaining equal to    *)
(* MaxRequests minus the requests made, never below 0, and Made equal to    *)
(* the number of requests made for the key in the current window (with or   *)
(* without the request being answered).                                     *)
C31_RemainingAndMade ==
    \A r \in Limiters :
        (limits[r].pc = "done" /\ limits[r].err = "")
        => LET out == limits[r].out
               left == out.MaxRequests - out.Made
           IN  /\ out.Remaining = (IF left > 0 THEN left ELSE 0)
               /\ out.Made \in {limits[r].win - 1, limits[r].win}

(* C32: a GetUser whose existence query found the row never returns an      *)
(* error because a ClearUser running at the same time deleted the row       *)
(* before the last_updated query or the read of the row's fields: it goes   *)
(* on to the remote fetch.  (No access fails in this environment.)          *)
C32_ClearNeverFailsGet ==
    \A c \in Calls :
        ( /\ IsGet(c) /\ Done(c)
          /\ HasEv(actors[c], "pg_count", "hit")
          /\ \/ HasEv(actors[c], "pg_last", "err")
             \/ HasEv(actors[c], "pg_row", "err") )
        => /\ actors[c].err = ""
           /\ Did(actors[c], "fetch")

(* C33: cached data does not stay unrefreshed for ever.  When GetUser is    *)
(* called again and again for an identity that has a row, time goes on,     *)
(* the live-state probe never answers and no access fails, a remote fetch   *)
(* of the identity (by a call or by a background goroutine) eventually      *)
(* happens, also when the redis key is cleared between the calls.           *)
C33_EventuallyRefetched ==
    ( /\ []<>(IsGet("c1") /\ actors["c1"].pc = "probe")
      /\ []<><<Tick \/ Later>>_vars
      /\ [](\A c \in Calls : ~HasEv(actors[c], "probe", "hit")) )
    => <>(\E a \in Actors : Did(actors[a], "fetch"))

(* C34: a fast-cache read that fails, or that returns bytes which do not    *)
(* decode, is a miss: GetUser does not return an error for it, its next     *)
(* access is the existence query of the table (and the remote fetch when    *)
(* the table has no row); and a redis SET of a later persist-through that   *)
(* succeeds leaves a decodable entry of the user under the key.             *)
C34_UndecodableIsMiss ==
    /\ [](\A c \in Calls :
            IsGet(c) =>
              \A i \in 1..Len(actors[c].acc) :
                 actors[c].acc[i] \in {<<"redis_get", "err">>, <<"redis_get", "undecodable">>}
                 => /\ actors[c].err # "redis"
                    /\ actors[c].pc # "done" \/ Len(actors[c].acc) > i
                    /\ Len(actors[c].acc) > i => actors[c].acc[i + 1][1] = "pg_count"
                    /\ (Len(actors[c].acc) > i + 1 /\ actors[c].acc[i + 1][2] = "miss")
                       => actors[c].acc[i + 2][1] = "fetch")
    /\ [][\A a \in Actors :
            ( /\ actors[a].pc = "cr_set"
              /\ HasEv(actors'[a], "redis_get", "undecodable")
              /\ actors'[a].acc[Len(actors'[a].acc)] = <<"redis_set", "ok">> )
            => /\ ~UnmarshalErr(redis'[actors[a].id].bytes)
               /\ Unmarshal(redis'[actors[a].id].bytes) = actors'[a].ret
               /\ RedisLive(redis'[actors[a].id], now)]_vars

(* a GetUser read the undecodable entry, went on to the table and           *)
(* returned a user, and the key now holds that user's JSON                  *)
C34_Witness ==
    \E c \in Calls :
        /\ IsGet(c) /\ Done(c)
        /\ actors[c].err = ""
        /\ HasEv(actors[c], "redis_get", "undecodable")
        /\ HasEv(actors[c], "pg_count", "miss")
        /\ HasEv(actors[c], "fetch", "ok")
        /\ HasEv(actors[c], "redis_set", "ok")
        /\ ~UnmarshalErr(redis[actors[c].id].bytes)

(* C35: ClearUser is all-or-nothing on error: a ClearUser that returns an   *)
(* error has deleted neither the row nor the redis key; the row that was    *)
(* there when it began is still there.                                      *)
C35_ClearAllOrNothing ==
    \A c \in Calls :
        (actors[c].kind = "clear" /\ Done(c) /\ actors[c].err # "")
        => /\ ~HasEv(actors[c], "pg_delete", "ok")
           /\ ~HasEv(actors[c], "redis_del", "ok")
           /\ actors[c].hadRow => pg[actors[c].id] # NoRow

(* C36: under Limit calls that run at the same time for one bucket and      *)
(* identifier, while the window is running (the counter key is there) the   *)
(* stored counter only ever goes up by the calls' increments: no step sets  *)
(* it back, and no step restarts its TTL.                                   *)
C36_CounterNeverReset ==
    [][CounterLive(rl, now)
       => /\ rl' # NoCounter
          /\ rl'.val \in {rl.val, rl.val + 1}
          /\ rl'.expires = rl.expires]_vars

(* C37: every ratelimit counter that is in the hot cache has a TTL, and     *)
(* the TTL is no larger than Expiry (so the bucket is free again within     *)
(* Expiry), also when the key ran out between the existence check or the    *)
(* Get of a Limit call and its increment.                                   *)
C37_CounterHasTtl ==
    CounterLive(rl, now)
    => /\ Ttl(rl, now) # -1
       /\ Ttl(rl, now) <= Expiry

(* C38: for every response respond writes (a message received from the      *)
(* channel: plain, with a Json body with or without Data or Bytes, or a     *)
(* redirect) it calls WriteHeader exactly once.                             *)
C38_WriteHeaderOnce ==
    (http.r = "returned" /\ http.sent = 1)
    => Cardinality({i \in 1..Len(http.calls) : http.calls[i].op = "WriteHeader"}) = 1

(* C39: the goroutine handle starts for a request always gets rid of its    *)
(* HttpResponse and ends: whenever it is at its send, respond is still      *)
(* there to receive, also when the request's context was cancelled before   *)
(* the response was produced; no goroutine of an earlier request is left    *)
(* waiting.                                                                 *)
C39_SendCompletes ==
    /\ http.g = "send" => http.r = "select"
    /\ http.blocked = 0

(* C40: the Handler is invoked only after Authorize returned ok and the     *)
(* RouteDataMiddleware (when set) succeeded, and once respond has returned  *)
(* and the goroutine has its response (or has ended) exactly one            *)
(* HttpResponse has gone through the channel: the authorizer's on denial,   *)
(* a 500 on a middleware error, the 500 InternalError after a panic, the    *)
(* Handler's otherwise.                                                     *)
C40_OneResponsePerRequest ==
    /\ http.invoked > 0 => http.authOk /\ (http.mw => http.mwOk)
    /\ http.invoked <= 1
    /\ http.g = "send"
       => \/ http.why = "denied" /\ ~http.authOk /\ http.msg = DeniedResponse
          \/ /\ http.why = "middleware" /\ http.authOk /\ ~http.mwOk
             /\ http.msg.Status = StatusInternalServerError
          \/ http.why = "panic" /\ http.msg = PanicResponse
          \/ /\ http.why = "handler" /\ http.invoked = 1
             /\ http.msg = http.answer
    /\ (http.r = "returned" /\ http.g \in {"send", "done"}) => http.sent = 1

====
